---- MODULE Spec2Model ----
(***************************************************************************)
(* A model of the go-inject dependency resolver: the struct-tag parser     *)
(* (structtag.go), the Graph registry (Provide) and the four passes of     *)
(* Graph.Populate with the recursive populateExplicit and                  *)
(* populateUnnamedInterface.                                               *)
(*                                                                         *)
(* Go strings that the code scans byte by byte (struct tags, tag values,   *)
(* object names) are sequences of one-character strings.  Go values are    *)
(* records [k, e, n, p]: k the kind, e the pointee type, n the allocation  *)
(* number and p the path of inline fields below that allocation.           *)
(***************************************************************************)
EXTENDS Integers, Sequences, FiniteSets, TLC

(* ------------------------------------------------------------------ *)
(* structtag.go                                                       *)
(* ------------------------------------------------------------------ *)

Quote == "\""

Backslash == "\\"

\* tag[i:] of Go, for a 0-based i
Drop(s, i) == SubSeq(s, i + 1, Len(s))

\* tag[:i] of Go
Take(s, i) == SubSeq(s, 1, i)

\* the first loop of Extract: the number of leading spaces
RECURSIVE SkipSpaces(_, _)
SkipSpaces(tag, i) ==
    IF i < Len(tag) /\ tag[i + 1] = " " THEN SkipSpaces(tag, i + 1) ELSE i

\* the second loop of Extract: scan the key up to a space, a colon or a quote
RECURSIVE ScanName(_, _)
ScanName(tag, i) ==
    IF i < Len(tag) /\ tag[i + 1] # " " /\ tag[i + 1] # ":" /\ tag[i + 1] # Quote
    THEN ScanName(tag, i + 1)
    ELSE i

\* the scan of the value with no regard for a backslash
RECURSIVE ScanValuePlain(_, _)
ScanValuePlain(tag, i) ==
    IF i < Len(tag) /\ tag[i + 1] # Quote THEN ScanValuePlain(tag, i + 1) ELSE i

\* the third loop of Extract: scan the quoted value, a backslash skips a byte
RECURSIVE ScanValue(_, _)
ScanValue(tag, i) ==
    IF i < Len(tag) /\ tag[i + 1] # Quote
    THEN ScanValue(tag, IF tag[i + 1] = Backslash THEN i + 2 ELSE i + 1)
    ELSE i

\* the single-character escapes strconv.Unquote accepts in a double-quoted
\* string, with the character each stands for (control characters are
\* written as tokens)
SimpleEscape ==
    [c \in {"a", "b", "f", "n", "r", "t", "v", Backslash, Quote} |->
        CASE c = "a" -> "BEL" [] c = "b" -> "BS" [] c = "f" -> "FF"
          [] c = "n" -> "LF" [] c = "r" -> "CR" [] c = "t" -> "HT"
          [] c = "v" -> "VT" [] OTHER -> c]

\* strconv.Unquote on the inside of a double-quoted string.  The alphabet of
\* the model holds no digit and none of x, u, U, so every other escape is
\* the syntax error of strconv.
RECURSIVE UnquoteBody(_)
UnquoteBody(s) ==
    IF s = <<>> THEN [err |-> FALSE, value |-> <<>>]
    ELSE IF s[1] = Quote \/ s[1] = "LF" THEN [err |-> TRUE, value |-> <<>>]
    ELSE IF s[1] # Backslash
    THEN LET r == UnquoteBody(Tail(s))
         IN  IF r.err THEN r ELSE [err |-> FALSE, value |-> <<s[1]>> \o r.value]
    ELSE IF Len(s) < 2 \/ s[2] \notin DOMAIN SimpleEscape
    THEN [err |-> TRUE, value |-> <<>>]
    ELSE LET r == UnquoteBody(Drop(s, 2))
         IN  IF r.err THEN r
             ELSE [err |-> FALSE, value |-> <<SimpleEscape[s[2]]>> \o r.value]

Unquote(q) ==
    IF Len(q) < 2 \/ q[1] # Quote \/ q[Len(q)] # Quote
    THEN [err |-> TRUE, value |-> <<>>]
    ELSE UnquoteBody(SubSeq(q, 2, Len(q) - 1))

ExtractError == [found |-> FALSE, value |-> <<>>, err |-> TRUE]

ExtractNotFound == [found |-> FALSE, value |-> <<>>, err |-> FALSE]

RECURSIVE Extract(_, _)
Extract(name, tag0) ==
    IF tag0 = <<>> THEN ExtractNotFound
    ELSE
    LET tag1 == Drop(tag0, SkipSpaces(tag0, 0))
        i == ScanName(tag1, 0)
    IN  IF tag1 = <<>> THEN ExtractNotFound
        ELSE IF i + 1 >= Len(tag1) \/ tag1[i + 1] # ":" \/ tag1[i + 2] # Quote
        THEN ExtractError
        ELSE
        LET foundName == Take(tag1, i)
            tag2 == Drop(tag1, i + 1)
            j == ScanValue(tag2, 1)
        IN  IF j >= Len(tag2) THEN ExtractError
            ELSE
            LET qValue == Take(tag2, j + 1)
                tag3 == Drop(tag2, j + 1)
                u == Unquote(qValue)
            IN  IF foundName = name
                THEN IF u.err THEN ExtractError
                     ELSE [found |-> TRUE, value |-> u.value, err |-> FALSE]
                ELSE Extract(name, tag3)

\* no call of Extract
NoExtract == [items |-> <<>>, tag |-> <<>>, called |-> FALSE, res |-> ExtractNotFound]

(* ------------------------------------------------------------------ *)
(* parseTag                                                           *)
(* ------------------------------------------------------------------ *)

InjectKey == <<"i", "n", "j", "e", "c", "t">>

InlineValue == <<"i", "n", "l", "i", "n", "e">>

PrivateValue == <<"p", "r", "i", "v", "a", "t", "e">>

\* the three shared tags and the named tag; IsNil stands for the nil *tag
NoTag == [IsNil |-> TRUE, Name |-> <<>>, Inline |-> FALSE, Private |-> FALSE]

injectOnly == [IsNil |-> FALSE, Name |-> <<>>, Inline |-> FALSE, Private |-> FALSE]

injectPrivate == [IsNil |-> FALSE, Name |-> <<>>, Inline |-> FALSE, Private |-> TRUE]

injectInline == [IsNil |-> FALSE, Name |-> <<>>, Inline |-> TRUE, Private |-> FALSE]

\* the name of a named tag dropped
parseTagUnnamed(t) ==
    LET x == Extract(InjectKey, t)
    IN  IF x.err THEN [tag |-> NoTag, err |-> TRUE]
        ELSE IF ~x.found THEN [tag |-> NoTag, err |-> FALSE]
        ELSE IF x.value = InlineValue THEN [tag |-> injectInline, err |-> FALSE]
        ELSE IF x.value = PrivateValue THEN [tag |-> injectPrivate, err |-> FALSE]
        ELSE [tag |-> injectOnly, err |-> FALSE]

\* the private directive read as the bare one
parseTagNoPrivate(t) ==
    LET x == Extract(InjectKey, t)
    IN  IF x.err THEN [tag |-> NoTag, err |-> TRUE]
        ELSE IF ~x.found THEN [tag |-> NoTag, err |-> FALSE]
        ELSE IF x.value = <<>> \/ x.value = PrivateValue
        THEN [tag |-> injectOnly, err |-> FALSE]
        ELSE IF x.value = InlineValue THEN [tag |-> injectInline, err |-> FALSE]
        ELSE [tag |-> [IsNil |-> FALSE, Name |-> x.value, Inline |-> FALSE,
                       Private |-> FALSE],
              err |-> FALSE]

\* a field with no inject key read as one with the bare directive
parseTagAlways(t) ==
    LET x == Extract(InjectKey, t)
    IN  IF x.err THEN [tag |-> NoTag, err |-> TRUE]
        ELSE IF ~x.found \/ x.value = <<>> THEN [tag |-> injectOnly, err |-> FALSE]
        ELSE IF x.value = InlineValue THEN [tag |-> injectInline, err |-> FALSE]
        ELSE IF x.value = PrivateValue THEN [tag |-> injectPrivate, err |-> FALSE]
        ELSE [tag |-> [IsNil |-> FALSE, Name |-> x.value, Inline |-> FALSE,
                       Private |-> FALSE],
              err |-> FALSE]

\* strings.HasPrefix
HasPrefix(s, prefix) ==
    Len(s) >= Len(prefix) /\ SubSeq(s, 1, Len(prefix)) = prefix

\* a value that starts with a directive word read as the directive
parseTagPrefix(t) ==
    LET x == Extract(InjectKey, t)
    IN  IF x.err THEN [tag |-> NoTag, err |-> TRUE]
        ELSE IF ~x.found THEN [tag |-> NoTag, err |-> FALSE]
        ELSE IF x.value = <<>> THEN [tag |-> injectOnly, err |-> FALSE]
        ELSE IF HasPrefix(x.value, InlineValue)
        THEN [tag |-> injectInline, err |-> FALSE]
        ELSE IF HasPrefix(x.value, PrivateValue)
        THEN [tag |-> injectPrivate, err |-> FALSE]
        ELSE [tag |-> [IsNil |-> FALSE, Name |-> x.value, Inline |-> FALSE,
                       Private |-> FALSE],
              err |-> FALSE]

\* parseTag: the *tag of a struct tag string and whether err != nil
parseTag(t) ==
    LET x == Extract(InjectKey, t)
    IN  IF x.err THEN [tag |-> NoTag, err |-> TRUE]
        ELSE IF ~x.found THEN [tag |-> NoTag, err |-> FALSE]
        ELSE IF x.value = <<>> THEN [tag |-> injectOnly, err |-> FALSE]
        ELSE IF x.value = InlineValue THEN [tag |-> injectInline, err |-> FALSE]
        ELSE IF x.value = PrivateValue THEN [tag |-> injectPrivate, err |-> FALSE]
        ELSE [tag |-> [IsNil |-> FALSE, Name |-> x.value, Inline |-> FALSE,
                       Private |-> FALSE],
              err |-> FALSE]

(* ------------------------------------------------------------------ *)
(* The client program: the struct types the Graph is used with        *)
(* ------------------------------------------------------------------ *)

\* `inject:"<v>"`
InjectTag(v) == InjectKey \o <<":", Quote>> \o v \o <<Quote>>

\* `json:"x" inject:"<v>"`: another key before the inject key
JsonInjectTag(v) == <<"j", "s", "o", "n", ":", Quote, "x", Quote, " ">> \o InjectTag(v)

\* `json:"x"`: a tag with no inject key
JsonTag == <<"j", "s", "o", "n", ":", Quote, "x", Quote>>

NameLg == <<"l", "g">>

NameDb == <<"d", "b">>

PtrTo(T) == [k |-> "ptr", e |-> T]

Iface(I) == [k |-> "iface", e |-> I]

StringType == [k |-> "string", e |-> ""]

StructOf(T) == [k |-> "struct", e |-> T]

\* map[string]int
MapType == [k |-> "map", e |-> ""]

Fld(name, type, tag) ==
    [name |-> name, type |-> type, tag |-> tag, exported |-> TRUE, anonymous |-> FALSE]

\* a field whose name starts with a lower-case letter
Unexported(name, type, tag) ==
    [name |-> name, type |-> type, tag |-> tag, exported |-> FALSE, anonymous |-> FALSE]

\* an embedded (anonymous) field of struct type T
Embedded(T, tag) ==
    [name |-> T, type |-> StructOf(T), tag |-> tag, exported |-> TRUE, anonymous |-> TRUE]

\* the struct types of deep_inject_test.go, and types in the style of the
\* examples for the named, capability and private directives
Types ==
    [ServiceA |-> <<Fld("Name", StringType, <<>>)>>,
     ServiceB |-> <<Fld("A", PtrTo("ServiceA"), InjectTag(<<>>))>>,
     ServiceC |-> <<Fld("B", PtrTo("ServiceB"), InjectTag(<<>>))>>,
     CircularA |-> <<Fld("B", PtrTo("CircularB"), InjectTag(<<>>))>>,
     CircularB |-> <<Fld("A", Iface("any"), InjectTag(<<>>))>>,
     PtrA |-> <<Fld("B", PtrTo("PtrB"), InjectTag(<<>>))>>,
     PtrB |-> <<Fld("A", PtrTo("PtrA"), InjectTag(<<>>))>>,
     UserService |-> <<Fld("Logger", Iface("Logger"), JsonInjectTag(<<>>))>>,
     OrderService |-> <<Fld("Logger", Iface("Logger"), InjectTag(NameLg))>>,
     Holder |-> <<Fld("A", PtrTo("ServiceA"), InjectTag(PrivateValue))>>,
     Twin |-> <<Fld("X", PtrTo("ServiceA"), InjectTag(PrivateValue)),
                Fld("Y", PtrTo("ServiceA"), InjectTag(PrivateValue))>>,
     Base |-> <<Fld("A", PtrTo("ServiceA"), InjectTag(<<>>))>>,
     Outer |-> <<Embedded("Base", InjectTag(InlineValue)),
                 Fld("Cfg", StructOf("Base"), InjectTag(InlineValue))>>,
     Node |-> <<Fld("Next", PtrTo("Node"), InjectTag(PrivateValue))>>,
     Plain |-> <<Unexported("dep", PtrTo("ServiceB"), <<>>),
                 Fld("Log", Iface("Logger"), JsonTag),
                 Fld("A", PtrTo("ServiceA"), InjectTag(<<>>))>>,
     Wired |-> <<Fld("A", PtrTo("ServiceA"), InjectTag(NameLg)),
                 Fld("Title", StringType, InjectTag(NameDb)),
                 Fld("Log", Iface("Logger"), InjectTag(NameLg))>>,
     Pair |-> <<Fld("A", PtrTo("ServiceA"), InjectTag(<<>>)),
                Fld("B", PtrTo("ServiceB"), InjectTag(<<>>))>>,
     Shell |-> <<Fld("Cfg", StructOf("Pair"), InjectTag(InlineValue))>>,
     Cache |-> <<Fld("M", MapType, InjectTag(PrivateValue)),
                 Fld("A", PtrTo("ServiceA"), InjectTag(<<>>)),
                 Fld("Log", Iface("Logger"), InjectTag(<<>>)),
                 Fld("Cfg", StructOf("Base"), InjectTag(InlineValue))>>,
     Probe |-> <<Fld("Log", Iface("Logger"), InjectTag(PrivateValue))>>,
     Host |-> <<Fld("S", PtrTo("Shell"), InjectTag(<<>>))>>,
     Dual |-> <<Fld("First", Iface("Logger"), InjectTag(<<>>)),
                Fld("Second", Iface("Logger"), InjectTag(<<>>))>>]

StructTypes == DOMAIN Types

\* the method sets: the pointer types that implement each interface type;
\* every type implements interface{}
Implementors ==
    [Logger |-> {PtrTo("ServiceA"), PtrTo("ServiceB")}]

isStructPtr(t) == t.k = "ptr" /\ t.e \in StructTypes

\* the kinds compared instead of the types
AssignableToKind(vt, ft) == vt.k = ft.k \/ ft.k = "iface"

\* reflect.Type.AssignableTo for the concrete dynamic type vt of a value and
\* the declared type ft of a field
AssignableTo(vt, ft) ==
    \/ vt = ft
    \/ /\ ft.k = "iface"
       /\ \/ ft.e = "any"
          \/ ft.e \in DOMAIN Implementors /\ vt \in Implementors[ft.e]

NumField(T) == Len(Types[T])

\* parseTag of every field, computed once
FieldTag == [T \in StructTypes |-> [i \in 1..NumField(T) |-> parseTag(Types[T][i].tag)]]

(* ------------------------------------------------------------------ *)
(* Go values and the heap                                             *)
(* ------------------------------------------------------------------ *)

\* the zero value of a field: a nil pointer, interface or map, an empty string
Zero == [k |-> "zero", e |-> "", n |-> 0, p |-> <<>>]

\* a pointer to the struct of type T at path p inside allocation n
Ptr(T, n, p) == [k |-> "ptr", e |-> T, n |-> n, p |-> p]

Str(n) == [k |-> "string", e |-> "", n |-> n, p |-> <<>>]

MapValue(n) == [k |-> "map", e |-> "", n |-> n, p |-> <<>>]

\* reflect.TypeOf
TypeOf(v) == [k |-> v.k, e |-> v.e]

\* the cells of a zero struct of type T at address Ptr(T, n, p): one function
\* from field index to value per struct, nested (inline) structs included; a
\* struct-typed field holds the address of the nested struct
RECURSIVE ZeroStruct(_, _, _)
RECURSIVE ZeroNested(_, _, _, _)
ZeroNested(T, n, p, i) ==
    IF i > NumField(T) THEN <<>>
    ELSE IF Types[T][i].type.k = "struct"
         THEN ZeroStruct(Types[T][i].type.e, n, Append(p, i)) @@ ZeroNested(T, n, p, i + 1)
         ELSE ZeroNested(T, n, p, i + 1)

ZeroStruct(T, n, p) ==
    (Ptr(T, n, p) :>
        [i \in 1..NumField(T) |->
            IF Types[T][i].type.k = "struct"
            THEN Ptr(Types[T][i].type.e, n, Append(p, i))
            ELSE Zero])
    @@ ZeroNested(T, n, p, 1)

\* reflect.New(T): a fresh zero struct
New(h, T, n) == ZeroStruct(T, n, <<>>) @@ h

\* field.Set
SetField(h, a, i, v) == [h EXCEPT ![a][i] = v]

\* the check for an existing value left out
alwaysZero(h, a, i) == TRUE

RECURSIVE isZeroStruct(_, _)
\* isNilOrZero: reflect.DeepEqual with the zero value of the field's type
isNilOrZero(h, a, i) ==
    IF Types[a.e][i].type.k = "struct"
    THEN isZeroStruct(h, h[a][i])
    ELSE h[a][i] = Zero

isZeroStruct(h, a) == \A i \in 1..NumField(a.e) : isNilOrZero(h, a, i)

(* ------------------------------------------------------------------ *)
(* Object and Graph                                                   *)
(* ------------------------------------------------------------------ *)

\* the number of Objects the caller registers
MaxProvide == 3

\* the number of Populate calls of the caller
MaxPopulate == 1

\* the depth of the populateExplicit recursion the goroutine stack holds
MaxDepth == 4

VARIABLES
    heap,         \* the structs of the caller and of the engine, by address
    world,        \* the values the caller holds and the names it uses
    nextN,        \* the next allocation number of reflect.New and reflect.MakeMap
    objects,      \* every *Object the Graph tracks, in the order of acceptance
    unnamed,      \* Graph.unnamed: indices into objects
    unnamedType,  \* Graph.unnamedType: the types set to true
    named,        \* Graph.named: name -> index into objects
    pc,           \* where the caller is: idle, in pass1..pass4 of Populate, fatal
    todo,         \* the names the running range over Graph.named has not visited
    idx,          \* the index i of pass 2, the position of the range of pass 3
    stack,        \* the frames of populateExplicit / populateUnnamedInterface
    err,          \* what the last Provide or Populate returned ("" is nil)
    populates,    \* the number of Populate calls made
    heap0,        \* the heap when the running (or last) Populate was called
    byCaller,     \* the indices of the Objects the caller registered itself
    failed,       \* whether a step of the running (or last) Populate failed
    listed,       \* the slice the last call of Objects returned, until the next call
    ext           \* a struct tag a caller of Extract holds, and what Extract returned

vars == <<heap, world, nextN, objects, unnamed, unnamedType, named, pc, todo, idx,
          stack, err, populates, heap0, byCaller, failed, listed, ext>>

\* Object.Fields of an Object that has no dependency map (nil)
NilFields == <<>>

\* &Object{Value: v, Name: name, Complete: complete}
Object(v, name, complete, fields, private, created, embedded) ==
    [Value |-> v, Name |-> name, Complete |-> complete, Fields |-> fields,
     reflectType |-> TypeOf(v), private |-> private, created |-> created,
     embedded |-> embedded]

\* the edge not recorded
addDepNone(objs, o, field, dep) == objs

\* Object.addDep
addDep(objs, o, field, dep) ==
    [objs EXCEPT ![o].Fields = (field :> dep) @@ @]

\* no call of Provide
NoCall == [made |-> FALSE, by |-> "", o |-> Object(Zero, <<>>, FALSE, NilFields,
                                                   FALSE, FALSE, FALSE), err |-> ""]

\* the call g.Provide(o) by the caller or by the engine, and what it returned
Called(by, o, e) == [made |-> TRUE, by |-> by, o |-> o, err |-> e]

Graph == [objects |-> objects, unnamed |-> unnamed, unnamedType |-> unnamedType,
          named |-> named]

\* the check of g.unnamedType left out
typeTakenNever(g, o) == FALSE

\* a type counted as taken by a private Object too
typeTakenByAny(g, o) ==
    \E k \in 1..Len(g.unnamed) : g.objects[g.unnamed[k]].reflectType = o.reflectType

\* g.unnamedType[o.reflectType]
typeTaken(g, o) == o.reflectType \in g.unnamedType

\* an Object registered before it is checked: a rejected one is in g.unnamed
\* or has taken the name of the Object registered before it
ProvideOneThenCheck(g, o) ==
    IF o.Fields # NilFields
    THEN [err |-> "fields were specified on object", g |-> g]
    ELSE IF o.Name = <<>>
    THEN IF ~isStructPtr(o.reflectType)
         THEN [err |-> "expected unnamed object value to be a pointer to a struct",
               g |-> g]
         ELSE [err |-> IF ~o.private /\ o.reflectType \in g.unnamedType
                       THEN "provided two unnamed instances of type" ELSE "",
               g |-> [g EXCEPT
                        !.unnamedType = IF o.private THEN @ ELSE @ \cup {o.reflectType},
                        !.objects = Append(@, o),
                        !.unnamed = Append(@, Len(g.objects) + 1)]]
    ELSE [err |-> IF o.Name \in DOMAIN g.named
                  THEN "provided two instances named" ELSE "",
          g |-> [g EXCEPT !.objects = Append(@, o),
                          !.named = (o.Name :> Len(g.objects) + 1) @@
                                    [x \in DOMAIN @ \ {o.Name} |-> @[x]]]]

\* Graph.Provide of one Object: the error ("" is nil) and the Graph after it
ProvideOne(g, o) ==
    IF o.Fields # NilFields
    THEN [err |-> "fields were specified on object", g |-> g]
    ELSE IF o.Name = <<>>
    THEN IF ~isStructPtr(o.reflectType)
         THEN [err |-> "expected unnamed object value to be a pointer to a struct",
               g |-> g]
         ELSE IF ~o.private /\ typeTaken(g, o)
         THEN [err |-> "provided two unnamed instances of type", g |-> g]
         ELSE [err |-> "",
               g |-> [g EXCEPT
                        !.unnamedType = IF o.private THEN @ ELSE @ \cup {o.reflectType},
                        !.objects = Append(@, o),
                        !.unnamed = Append(@, Len(g.objects) + 1)]]
    ELSE IF o.Name \in DOMAIN g.named
    THEN [err |-> "provided two instances named", g |-> g]
    ELSE [err |-> "",
          g |-> [g EXCEPT !.objects = Append(@, o),
                          !.named = (o.Name :> Len(g.objects) + 1) @@ @]]

SetGraph(g) ==
    /\ objects' = g.objects
    /\ unnamed' = g.unnamed
    /\ unnamedType' = g.unnamedType
    /\ named' = g.named

\* the caller calls g.Provide(&Object{Value: v, Name: name, Complete: complete}),
\* or with a dependency map already filled in
Provide ==
    /\ pc \in {"idle", "returned"}
    /\ listed = <<>>
    /\ Len(objects) < MaxProvide
    /\ \E v \in world.values, name \in {<<>>} \cup world.names, complete \in BOOLEAN,
          prefilled \in BOOLEAN :
          \E o \in {Object(v, name, complete, IF prefilled THEN (1 :> 1) ELSE NilFields,
                           FALSE, FALSE, FALSE)} :
          \E r \in {ProvideOne(Graph, o)} :
              /\ SetGraph(r.g)
              /\ err' = r.err
              /\ byCaller' = IF r.err = "" THEN byCaller \cup {Len(r.g.objects)}
                             ELSE byCaller
    /\ pc' = "idle"
    /\ UNCHANGED <<heap, world, nextN, todo, idx, stack, populates, heap0, failed>>
    /\ UNCHANGED <<listed, ext>>

(* ------------------------------------------------------------------ *)
(* populateExplicit and populateUnnamedInterface, one field at a time *)
(* ------------------------------------------------------------------ *)

Min(S) == CHOOSE x \in S : \A y \in S : x <= y

\* no Object of g.unnamed taken for a candidate
CandidatesNone(g, ft) == {}

\* the private Objects not skipped
CandidatesWithPrivate(g, ft) ==
    {k \in 1..Len(g.unnamed) : AssignableTo(g.objects[g.unnamed[k]].reflectType, ft)}

\* the positions of Graph.unnamed whose Object is not private and is
\* assignable to the field type ft
Candidates(g, ft) ==
    {k \in 1..Len(g.unnamed) :
        /\ ~g.objects[g.unnamed[k]].private
        /\ AssignableTo(g.objects[g.unnamed[k]].reflectType, ft)}

\* the deep-injection scan: whether the value is the Value of an unnamed Object
Tracked(g, v) == \E k \in 1..Len(g.unnamed) : g.objects[g.unnamed[k]].Value = v

\* what an iteration of a field loop does next: ctl is "continue", "return"
\* (with err), "panic", or a recursive call of populateExplicit on child:
\* "deep" for a value found in the field, "created" for a value of reflect.New,
\* which is assigned after the call returns; call is the call of Provide the
\* iteration made
Continue(g, h, n) ==
    [ctl |-> "continue", err |-> "", g |-> g, h |-> h, n |-> n, child |-> 0,
     call |-> NoCall]

Fail(g, h, n, e) ==
    [ctl |-> "return", err |-> e, g |-> g, h |-> h, n |-> n, child |-> 0,
     call |-> NoCall]

\* the Object found and nothing done with it
AssignNothing(g, h, n, o, i, existing) == Continue(g, h, n)

\* the edge recorded and the field left as it was
AssignEdgeOnly(g, h, n, o, i, existing) ==
    Continue([g EXCEPT !.objects = addDep(@, o, i, existing)], h, n)

\* field.Set(reflect.ValueOf(existing.Value)); o.addDep(fieldName, existing)
Assign(g, h, n, o, i, existing) ==
    Continue([g EXCEPT !.objects = addDep(@, o, i, existing)],
             SetField(h, g.objects[o].Value, i, g.objects[existing].Value), n)

\* deep injection, after r == g.Provide(existingObject): the Object is
\* populated if err == nil; any error of Provide is dropped and the loop goes on
deepProvided(g, h, n, o, r) ==
    IF r.err = ""
    THEN [ctl |-> "deep", err |-> "", g |-> r.g, h |-> h, n |-> n,
          child |-> Len(r.g.objects), call |-> Called("engine", o, r.err)]
    ELSE [Continue(g, h, n) EXCEPT !.call = Called("engine", o, r.err)]

\* existingObject := &Object{Value: existingValue, private: false, created: false}
existingObject(v) == Object(v, <<>>, FALSE, NilFields, FALSE, FALSE, FALSE)

\* deep injection: the value v found in the field is provided as a new Object
deepInject(g, h, n, v) ==
    deepProvided(g, h, n, existingObject(v), ProvideOne(g, existingObject(v)))

\* an inline struct, after r == g.Provide(...): an error is returned
inlineProvided(h, n, o, r) ==
    IF r.err # ""
    THEN [Fail(r.g, h, n, r.err) EXCEPT !.call = Called("engine", o, r.err)]
    ELSE [Continue(r.g, h, n) EXCEPT !.call = Called("engine", o, r.err)]

\* &Object{Value: field.Addr().Interface(), private: true, embedded: Anonymous}
inlineObject(v, anonymous) == Object(v, <<>>, FALSE, NilFields, TRUE, FALSE, anonymous)

\* an inline struct: the address v of the field is provided as a private Object
provideInline(g, h, n, v, anonymous) ==
    inlineProvided(h, n, inlineObject(v, anonymous),
                   ProvideOne(g, inlineObject(v, anonymous)))

\* a created value, after r == g.Provide(newObject): an error is returned,
\* otherwise the new Object is populated
newProvided(h, n, o, r) ==
    IF r.err # ""
    THEN [Fail(r.g, h, n, r.err) EXCEPT !.call = Called("engine", o, r.err)]
    ELSE [ctl |-> "created", err |-> "", g |-> r.g, h |-> h, n |-> n,
          child |-> Len(r.g.objects), call |-> Called("engine", o, r.err)]

\* newObject := &Object{Value: newValue.Interface(), private: tag.Private, created: true}
newObject(v, private) == Object(v, <<>>, FALSE, NilFields, private, TRUE, FALSE)

\* newValue := reflect.New(fieldType.Elem()) is provided as a new Object
createNew(g, h, n, T, private) ==
    newProvided(New(h, T, n), n + 1, newObject(Ptr(T, n, <<>>), private),
                ProvideOne(g, newObject(Ptr(T, n, <<>>), private)))

\* the scan that counts the matches before it assigns: with a second match
\* the field is left as it was
assignCounted(g, h, n, o, i, cands) ==
    IF cands = {} THEN Fail(g, h, n, "found no assignable value for field")
    ELSE IF cands # {Min(cands)}
    THEN Fail(g, h, n, "found two assignable values for field")
    ELSE Assign(g, h, n, o, i, g.unnamed[Min(cands)])

\* the scan of g.unnamed for the one assignable value: the first match is
\* assigned when it is met, a second match is the error
assignOnly(g, h, n, o, i, cands) ==
    IF cands = {} THEN Fail(g, h, n, "found no assignable value for field")
    ELSE IF cands # {Min(cands)}
    THEN [Assign(g, h, n, o, i, g.unnamed[Min(cands)]) EXCEPT
            !.ctl = "return", !.err = "found two assignable values for field"]
    ELSE Assign(g, h, n, o, i, g.unnamed[Min(cands)])

\* the capability search made at once, in the explicit pass
interfaceNow(g, h, n, o, i, ft) == assignOnly(g, h, n, o, i, Candidates(g, ft))

\* if fieldType.Kind() == reflect.Interface { continue }: an interface field
\* is left to the later passes
interfaceLater(g, h, n, o, i, ft) == Continue(g, h, n)

\* One iteration of StructLoop for field i of Object o, at address a, with
\* the StructField fld and the parsed tag pt.
explicitStep(g, h, n, o, i, a, fld, pt) ==
    IF pt.err THEN Fail(g, h, n, "unexpected tag format")
    ELSE IF pt.tag.IsNil THEN Continue(g, h, n)
    ELSE IF ~fld.exported THEN Fail(g, h, n, "inject requested on unexported field")
    ELSE IF pt.tag.Inline /\ fld.type.k # "struct"
    THEN Fail(g, h, n, "inline requested on non inlined field")
    ELSE IF ~isNilOrZero(h, a, i)
    THEN IF isStructPtr(fld.type) /\ ~pt.tag.Private /\ ~Tracked(g, h[a][i])
         THEN deepInject(g, h, n, h[a][i])
         ELSE Continue(g, h, n)
    ELSE IF pt.tag.Name # <<>>
    THEN IF pt.tag.Name \notin DOMAIN g.named
         THEN Fail(g, h, n, "did not find object named")
         ELSE IF ~AssignableTo(g.objects[g.named[pt.tag.Name]].reflectType, fld.type)
         THEN Fail(g, h, n, "object named is not assignable to field")
         ELSE Assign(g, h, n, o, i, g.named[pt.tag.Name])
    ELSE IF fld.type.k = "struct"
    THEN IF pt.tag.Private
         THEN Fail(g, h, n, "cannot use private inject on inline struct")
         ELSE IF ~pt.tag.Inline
         THEN Fail(g, h, n, "inline struct required an explicit inline tag")
         ELSE provideInline(g, h, n, h[a][i], fld.anonymous)
    ELSE IF fld.type.k = "iface" THEN interfaceLater(g, h, n, o, i, fld.type)
    ELSE IF fld.type.k = "map"
    THEN IF ~pt.tag.Private
         THEN Fail(g, h, n, "inject on map field must be named or private")
         ELSE Continue(g, SetField(h, a, i, MapValue(n)), n + 1)
    ELSE IF ~isStructPtr(fld.type)
    THEN Fail(g, h, n, "found inject tag on unsupported field")
    ELSE IF ~pt.tag.Private /\ Candidates(g, fld.type) # {}
    THEN Assign(g, h, n, o, i, g.unnamed[Min(Candidates(g, fld.type))])
    ELSE createNew(g, h, n, fld.type.e, pt.tag.Private)

explicitField(g, h, n, o, i) ==
    explicitStep(g, h, n, o, i, g.objects[o].Value,
                 Types[g.objects[o].Value.e][i], FieldTag[g.objects[o].Value.e][i])

\* One iteration of the loop of populateUnnamedInterface for field i of Object
\* o, at address a, with the StructField fld and the parsed tag pt.
interfaceStep(g, h, n, o, i, a, fld, pt) ==
    IF pt.err THEN Fail(g, h, n, "unexpected tag format")
    ELSE IF pt.tag.IsNil THEN Continue(g, h, n)
    ELSE IF fld.type.k # "iface" THEN Continue(g, h, n)
    ELSE IF pt.tag.Private
    THEN Fail(g, h, n, "found private inject tag on interface field")
    ELSE IF ~isNilOrZero(h, a, i) THEN Continue(g, h, n)
    ELSE IF pt.tag.Name # <<>>
    THEN [Continue(g, h, n) EXCEPT !.ctl = "panic", !.err = "unhandled named instance"]
    ELSE assignOnly(g, h, n, o, i, Candidates(g, fld.type))

interfaceField(g, h, n, o, i) ==
    interfaceStep(g, h, n, o, i, g.objects[o].Value,
                  Types[g.objects[o].Value.e][i], FieldTag[g.objects[o].Value.e][i])

Frame(o) == [o |-> o, i |-> 1, wait |-> "none"]

Top == stack[Len(stack)]

\* the first statement of populateExplicit and populateUnnamedInterface:
\* named values that are not struct pointers are ignored
Ignored(o) == objects[o].Name # <<>> /\ ~isStructPtr(objects[o].reflectType)

\* Populate returns e to the caller
Return(e) ==
    /\ pc' = "returned"
    /\ err' = e
    /\ stack' = <<>>

\* the caller calls g.Populate(): the range of pass 1 starts
Populate ==
    /\ pc \in {"idle", "returned"}
    /\ listed = <<>>
    /\ populates < MaxPopulate
    /\ populates' = populates + 1
    /\ pc' = "pass1"
    /\ todo' = DOMAIN named
    /\ heap0' = heap
    /\ err' = ""
    /\ failed' = FALSE
    /\ UNCHANGED <<heap, world, nextN, objects, unnamed, unnamedType, named, idx, stack,
                   byCaller>>
    /\ UNCHANGED <<listed, ext>>

\* pass 1: the range over g.named yields an Object, in the order of the map
Pass1Visit ==
    /\ pc = "pass1" /\ stack = <<>>
    /\ \E name \in todo :
        /\ todo' = todo \ {name}
        /\ stack' = IF objects[named[name]].Complete \/ Ignored(named[name])
                    THEN <<>> ELSE <<Frame(named[name])>>
    /\ UNCHANGED <<heap, world, nextN, objects, unnamed, unnamedType, named, pc, idx,
                   err, populates, heap0, byCaller, failed>>
    /\ UNCHANGED <<listed, ext>>

\* pass 1 ends; i := 0
Pass1End ==
    /\ pc = "pass1" /\ stack = <<>> /\ todo = {}
    /\ pc' = "pass2"
    /\ idx' = 0
    /\ UNCHANGED <<heap, world, nextN, objects, unnamed, unnamedType, named, todo,
                   stack, err, populates, heap0, byCaller, failed>>
    /\ UNCHANGED <<listed, ext>>

\* the loop stopped at the first Object the caller did not provide
AtEndOfProvided(i, s) == i = Len(s) \/ (i < Len(s) /\ s[i + 1] \notin byCaller)

\* if i == len(g.unnamed) { break }: the length is read at each iteration
AtEnd(i, s) == i = Len(s)

\* pass 2: o := g.unnamed[i]; i++
Pass2Visit ==
    /\ pc = "pass2" /\ stack = <<>> /\ ~AtEnd(idx, unnamed)
    /\ idx' = idx + 1
    /\ stack' = IF objects[unnamed[idx + 1]].Complete THEN <<>>
                ELSE <<Frame(unnamed[idx + 1])>>
    /\ UNCHANGED <<heap, world, nextN, objects, unnamed, unnamedType, named, pc, todo,
                   err, populates, heap0, byCaller, failed>>
    /\ UNCHANGED <<listed, ext>>

\* pass 2 ends when i == len(g.unnamed); the range of pass 3 starts
Pass2End ==
    /\ pc = "pass2" /\ stack = <<>> /\ AtEnd(idx, unnamed)
    /\ pc' = "pass3"
    /\ idx' = 0
    /\ UNCHANGED <<heap, world, nextN, objects, unnamed, unnamedType, named, todo,
                   stack, err, populates, heap0, byCaller, failed>>
    /\ UNCHANGED <<listed, ext>>

\* passes 1 and 2: one iteration of StructLoop in the innermost populateExplicit
ExplicitField ==
    /\ pc \in {"pass1", "pass2"} /\ stack # <<>>
    /\ Top.i <= NumField(objects[Top.o].Value.e)
    /\ \E r \in {explicitField(Graph, heap, nextN, Top.o, Top.i)} :
           /\ SetGraph(r.g)
           /\ failed' = (failed \/ r.ctl \in {"return", "panic"} \/ r.call.err # "")
           /\ heap' = r.h
           /\ nextN' = r.n
           /\ IF r.ctl = "continue"
              THEN /\ stack' = [stack EXCEPT ![Len(stack)].i = @ + 1]
                   /\ UNCHANGED <<pc, err>>
              ELSE IF r.ctl = "return"
              THEN Return(r.err)
              ELSE IF Len(stack) >= MaxDepth
              THEN /\ pc' = "fatal"
                   /\ err' = "stack overflow"
                   /\ UNCHANGED stack
              ELSE /\ stack' = Append([stack EXCEPT ![Len(stack)].wait = r.ctl],
                                      Frame(r.child))
                   /\ UNCHANGED <<pc, err>>
    /\ UNCHANGED <<world, todo, idx, populates, heap0, byCaller>>
    /\ UNCHANGED <<listed, ext>>

\* passes 1 and 2: the innermost populateExplicit returns nil.  A caller that
\* created the Object assigns it to its field and records the edge; a caller
\* that found it in its field goes on to the next field.
ExplicitReturn ==
    /\ pc \in {"pass1", "pass2"} /\ stack # <<>>
    /\ Top.i > NumField(objects[Top.o].Value.e)
    /\ IF Len(stack) = 1
       THEN /\ stack' = <<>>
            /\ UNCHANGED <<heap, objects>>
       ELSE LET caller == stack[Len(stack) - 1]
                popped == SubSeq(stack, 1, Len(stack) - 1)
            IN  /\ stack' = [popped EXCEPT ![Len(popped)] =
                                [o |-> caller.o, i |-> caller.i + 1, wait |-> "none"]]
                /\ IF caller.wait = "created"
                   THEN /\ heap' = SetField(heap, objects[caller.o].Value, caller.i,
                                            objects[Top.o].Value)
                        /\ objects' = addDep(objects, caller.o, caller.i, Top.o)
                   ELSE UNCHANGED <<heap, objects>>
    /\ UNCHANGED <<world, nextN, unnamed, unnamedType, named, pc, todo, idx, err,
                   populates, heap0, byCaller, failed>>
    /\ UNCHANGED <<listed, ext>>

\* pass 3: the range over g.unnamed yields the next Object
Pass3Visit ==
    /\ pc = "pass3" /\ stack = <<>> /\ idx < Len(unnamed)
    /\ idx' = idx + 1
    /\ stack' = IF objects[unnamed[idx + 1]].Complete THEN <<>>
                ELSE <<Frame(unnamed[idx + 1])>>
    /\ UNCHANGED <<heap, world, nextN, objects, unnamed, unnamedType, named, pc, todo,
                   err, populates, heap0, byCaller, failed>>
    /\ UNCHANGED <<listed, ext>>

\* pass 3 ends; the range of pass 4 starts
Pass3End ==
    /\ pc = "pass3" /\ stack = <<>> /\ idx = Len(unnamed)
    /\ pc' = "pass4"
    /\ todo' = DOMAIN named
    /\ UNCHANGED <<heap, world, nextN, objects, unnamed, unnamedType, named, idx,
                   stack, err, populates, heap0, byCaller, failed>>
    /\ UNCHANGED <<listed, ext>>

\* pass 4: the range over g.named yields an Object, in the order of the map
Pass4Visit ==
    /\ pc = "pass4" /\ stack = <<>>
    /\ \E name \in todo :
        /\ todo' = todo \ {name}
        /\ stack' = IF objects[named[name]].Complete \/ Ignored(named[name])
                    THEN <<>> ELSE <<Frame(named[name])>>
    /\ UNCHANGED <<heap, world, nextN, objects, unnamed, unnamedType, named, pc, idx,
                   err, populates, heap0, byCaller, failed>>
    /\ UNCHANGED <<listed, ext>>

\* pass 4 ends: Populate returns nil
Pass4End ==
    /\ pc = "pass4" /\ stack = <<>> /\ todo = {}
    /\ Return("")
    /\ UNCHANGED <<heap, world, nextN, objects, unnamed, unnamedType, named, todo, idx,
                   populates, heap0, byCaller, failed>>
    /\ UNCHANGED <<listed, ext>>

\* passes 3 and 4: one iteration of the loop of populateUnnamedInterface
InterfaceField ==
    /\ pc \in {"pass3", "pass4"} /\ stack # <<>>
    /\ Top.i <= NumField(objects[Top.o].Value.e)
    /\ \E r \in {interfaceField(Graph, heap, nextN, Top.o, Top.i)} :
           /\ SetGraph(r.g)
           /\ failed' = (failed \/ r.ctl \in {"return", "panic"} \/ r.call.err # "")
           /\ heap' = r.h
           /\ IF r.ctl = "continue"
              THEN /\ stack' = [stack EXCEPT ![Len(stack)].i = @ + 1]
                   /\ UNCHANGED <<pc, err>>
              ELSE IF r.ctl = "return"
              THEN Return(r.err)
              ELSE /\ pc' = "fatal"
                   /\ err' = r.err
                   /\ UNCHANGED stack
    /\ UNCHANGED <<world, nextN, todo, idx, populates, heap0, byCaller>>
    /\ UNCHANGED <<listed, ext>>

\* passes 3 and 4: populateUnnamedInterface returns nil
InterfaceReturn ==
    /\ pc \in {"pass3", "pass4"} /\ stack # <<>>
    /\ Top.i > NumField(objects[Top.o].Value.e)
    /\ stack' = <<>>
    /\ UNCHANGED <<heap, world, nextN, objects, unnamed, unnamedType, named, pc, todo,
                   idx, err, populates, heap0, byCaller, failed>>
    /\ UNCHANGED <<listed, ext>>

(* ------------------------------------------------------------------ *)
(* Objects                                                            *)
(* ------------------------------------------------------------------ *)

\* objects[i], objects[j] = objects[j], objects[i]
Swap(s, i, j) == [s EXCEPT ![i] = s[j], ![j] = s[i]]

\* the loop of Objects from index i on: j := rand.Intn(i + 1), any of 0..i
\* (positions 1..i here), then the swap
RECURSIVE Shuffles(_, _)
Shuffles(s, i) ==
    IF i > Len(s) THEN {s}
    ELSE UNION {Shuffles(Swap(s, i, j), i + 1) : j \in 1..i}

\* the orders in which a range over the map g.named can yield its entries
RangeOrders(g) ==
    {f \in [1..Cardinality(DOMAIN g.named) -> DOMAIN g.named] :
        \A i, j \in DOMAIN f : f[i] = f[j] => i = j}

\* the embedded Objects kept
AlsoEmbedded(g, s) == s

\* the elements of s that are not embedded Objects, in the order of s
RECURSIVE NotEmbedded(_, _)
NotEmbedded(g, s) ==
    IF s = <<>> THEN <<>>
    ELSE IF g.objects[Head(s)].embedded THEN NotEmbedded(g, Tail(s))
    ELSE <<Head(s)>> \o NotEmbedded(g, Tail(s))

\* the slice of Objects before the shuffle: g.unnamed, then g.named in the
\* order f of the range
Collected(g, f) ==
    NotEmbedded(g, g.unnamed \o [i \in DOMAIN f |-> g.named[f[i]]])

\* the length of the slices the caller gets from Objects
MaxListed == 3

\* the caller calls g.Objects() when Populate has returned, as its last call
Objects ==
    /\ pc = "returned"
    /\ listed = <<>>
    /\ \E f \in RangeOrders(Graph) :
         /\ Len(Collected(Graph, f)) <= MaxListed
         /\ \E s \in Shuffles(Collected(Graph, f), 1) : listed' = s
    /\ UNCHANGED <<heap, world, nextN, objects, unnamed, unnamedType, named, pc, todo,
                   idx, stack, err, populates, heap0, byCaller, failed, ext>>

(* ------------------------------------------------------------------ *)
(* The caller: the structures built by hand before registration       *)
(* ------------------------------------------------------------------ *)

\* &T{} as allocation n
Build(h, T, n) == New(h, T, n)

\* TestDeepInjectWithMixedProvision, with a second ServiceB: serviceA,
\* serviceB, serviceC and another ServiceB; serviceC.B is nil or serviceB, and
\* serviceB.A is nil or serviceA (the nesting of TestDeepInjectAdvanced)
DeepWorlds ==
    LET a == Ptr("ServiceA", 1, <<>>)
        b == Ptr("ServiceB", 2, <<>>)
        c == Ptr("ServiceC", 3, <<>>)
        b2 == Ptr("ServiceB", 4, <<>>)
        h == Build(Build(Build(Build(<<>>, "ServiceA", 1), "ServiceB", 2),
                         "ServiceC", 3), "ServiceB", 4)
    IN  {[heap |-> SetField(SetField(h, c, 1, x[1]), b, 1, x[2]),
          values |-> {a, b, c, b2}, names |-> {NameLg}] :
            x \in {<<Zero, Zero>>, <<b, Zero>>, <<b, a>>}}

\* TestDeepInjectWithMixedProvision and TestDeepInjectAdvanced as written:
\* serviceA, serviceB and serviceC only
MixedWorlds ==
    LET a == Ptr("ServiceA", 1, <<>>)
        b == Ptr("ServiceB", 2, <<>>)
        c == Ptr("ServiceC", 3, <<>>)
        h == Build(Build(Build(<<>>, "ServiceA", 1), "ServiceB", 2), "ServiceC", 3)
    IN  {[heap |-> SetField(SetField(h, c, 1, x[1]), b, 1, x[2]),
          values |-> {a, b, c}, names |-> {NameLg}] :
            x \in {<<Zero, Zero>>, <<b, Zero>>, <<b, a>>}}

\* TestDeepInjectCircularDependency: a.B == b and b.A == a, or b.A left nil;
\* and the same cycle through two pointer fields, or both left nil
CycleWorlds ==
    LET a == Ptr("CircularA", 1, <<>>)
        b == Ptr("CircularB", 2, <<>>)
        h == SetField(Build(Build(<<>>, "CircularA", 1), "CircularB", 2), a, 1, b)
        pa == Ptr("PtrA", 3, <<>>)
        pb == Ptr("PtrB", 4, <<>>)
        hp == Build(Build(<<>>, "PtrA", 3), "PtrB", 4)
    IN  {[heap |-> SetField(h, b, 1, bA), values |-> {a, b}, names |-> {NameLg}] :
            bA \in {Zero, a}}
        \cup
        {[heap |-> SetField(SetField(hp, pa, 1, x[1]), pb, 1, x[2]),
          values |-> {pa, pb}, names |-> {NameLg}] :
            x \in {<<pb, pa>>, <<Zero, Zero>>}}

\* capability fields: a UserService or an OrderService, two implementations
\* of Logger, a string, and a Holder of a private ServiceA
LoggerWorlds ==
    LET u == Ptr("UserService", 1, <<>>)
        p == Ptr("Holder", 5, <<>>)
        o == Ptr("OrderService", 2, <<>>)
        a == Ptr("ServiceA", 3, <<>>)
        b == Ptr("ServiceB", 4, <<>>)
        h == Build(Build(Build(Build(<<>>, "UserService", 1), "OrderService", 2),
                         "ServiceA", 3), "ServiceB", 4)
    IN  {[heap |-> h, values |-> {u, a, b}, names |-> {NameLg}],
         [heap |-> Build(h, "Holder", 5), values |-> {u, a, p}, names |-> {NameLg}],
         [heap |-> h, values |-> {o, a, b, Str(1)}, names |-> {NameLg}],
         [heap |-> h, values |-> {o, a}, names |-> {NameLg, NameDb}]}

\* a type whose private pointer field refers to the type itself
NodeWorlds ==
    LET d == Ptr("Node", 1, <<>>)
        a == Ptr("ServiceA", 2, <<>>)
    IN  {[heap |-> Build(Build(<<>>, "Node", 1), "ServiceA", 2), values |-> {d, a},
          names |-> {NameLg}]}

\* inline structs: an Outer that embeds a Base and has a Base field Cfg, both
\* tagged inline, with Cfg.A nil or set by hand
InlineWorlds ==
    LET o == Ptr("Outer", 1, <<>>)
        a == Ptr("ServiceA", 2, <<>>)
        h == Build(Build(<<>>, "Outer", 1), "ServiceA", 2)
    IN  {[heap |-> SetField(h, Ptr("Base", 1, <<2>>), 1, x), values |-> {o, a},
          names |-> {NameLg}] : x \in {Zero, a}}

\* private injection: a Twin with two private *ServiceA fields, beside a
\* ServiceA, a ServiceB (pointer reuse) and a UserService (capability search)
PrivateWorlds ==
    LET t == Ptr("Twin", 1, <<>>)
        a == Ptr("ServiceA", 2, <<>>)
        b == Ptr("ServiceB", 3, <<>>)
        u == Ptr("UserService", 4, <<>>)
    IN  {[heap |-> Build(Build(Build(Build(<<>>, "Twin", 1), "ServiceA", 2),
                               "ServiceB", 3), "UserService", 4),
          values |-> {t, a, b, u}, names |-> {NameLg}]}

\* fields with no inject key: a Plain whose unexported dep is nil or a
\* ServiceB built by hand and never provided, beside a ServiceA
PlainWorlds ==
    LET p == Ptr("Plain", 1, <<>>)
        a == Ptr("ServiceA", 2, <<>>)
        b == Ptr("ServiceB", 3, <<>>)
        h == Build(Build(Build(<<>>, "Plain", 1), "ServiceA", 2), "ServiceB", 3)
    IN  {[heap |-> SetField(h, p, 1, x), values |-> {p, a}, names |-> {NameLg}] :
            x \in {Zero, b}}

\* the pool of a capability search: a UserService (Logger field) beside a
\* Base, whose field A makes the engine create the one ServiceA
PoolWorlds ==
    LET u == Ptr("UserService", 1, <<>>)
        x == Ptr("Base", 2, <<>>)
    IN  {[heap |-> Build(Build(<<>>, "UserService", 1), "Base", 2),
          values |-> {u, x}, names |-> {NameLg}]}

\* named fields of three kinds: a Wired (pointer, interface and string
\* fields, each tagged with a name) beside a ServiceA and a string
WiredWorlds ==
    LET w == Ptr("Wired", 1, <<>>)
        a == Ptr("ServiceA", 2, <<>>)
    IN  {[heap |-> Build(Build(<<>>, "Wired", 1), "ServiceA", 2),
          values |-> {w, a, Str(1)}, names |-> {NameLg, NameDb}]}

\* an inline struct with two fields: a Shell whose Cfg is zero or has its A
\* set by hand, beside a ServiceA
ShellWorlds ==
    LET s == Ptr("Shell", 1, <<>>)
        a == Ptr("ServiceA", 2, <<>>)
        h == Build(Build(<<>>, "Shell", 1), "ServiceA", 2)
    IN  {[heap |-> SetField(h, Ptr("Pair", 1, <<1>>), 1, x), values |-> {s, a},
          names |-> {NameLg}] : x \in {Zero, a}}

\* fields of every kind the engine fills: a Cache (private map, pointer,
\* Logger and inline Base fields) beside a ServiceA
CacheWorlds ==
    LET c == Ptr("Cache", 1, <<>>)
        a == Ptr("ServiceA", 2, <<>>)
    IN  {[heap |-> Build(Build(<<>>, "Cache", 1), "ServiceA", 2), values |-> {c, a},
          names |-> {NameLg}]}

\* a private interface field: a Probe whose Log is nil or set by hand, beside
\* a ServiceA
ProbeWorlds ==
    LET p == Ptr("Probe", 1, <<>>)
        a == Ptr("ServiceA", 2, <<>>)
        h == Build(Build(<<>>, "Probe", 1), "ServiceA", 2)
    IN  {[heap |-> SetField(h, p, 1, x), values |-> {p, a}, names |-> {NameLg}] :
            x \in {Zero, a}}

\* a Host whose *Shell the engine creates (the Shell has an inline Pair),
\* beside a ServiceA
HostWorlds ==
    {[heap |-> Build(Build(<<>>, "Host", 1), "ServiceA", 2),
      values |-> {Ptr("Host", 1, <<>>), Ptr("ServiceA", 2, <<>>)},
      names |-> {NameLg}]}

\* two ServiceC the caller registers under names: the B of the first is set
\* by hand to a ServiceB the caller does not register, the B of the second
\* is nil
RangeWorlds ==
    LET c1 == Ptr("ServiceC", 1, <<>>)
        c2 == Ptr("ServiceC", 2, <<>>)
        b == Ptr("ServiceB", 3, <<>>)
        h == Build(Build(Build(<<>>, "ServiceC", 1), "ServiceC", 2), "ServiceB", 3)
    IN  {[heap |-> SetField(h, c1, 1, b), values |-> {c1, c2},
          names |-> {NameLg, NameDb}]}

\* a Dual with two Logger fields, beside a ServiceA and a ServiceB that both
\* implement Logger
DualWorlds ==
    {[heap |-> Build(Build(Build(<<>>, "Dual", 1), "ServiceA", 2), "ServiceB", 3),
      values |-> {Ptr("Dual", 1, <<>>), Ptr("ServiceA", 2, <<>>),
                  Ptr("ServiceB", 3, <<>>)},
      names |-> {NameLg}]}

Worlds ==
    DeepWorlds \cup CycleWorlds \cup LoggerWorlds \cup NodeWorlds \cup InlineWorlds
        \cup PrivateWorlds \cup PlainWorlds \cup MixedWorlds
        \cup PoolWorlds \cup WiredWorlds \cup ShellWorlds \cup CacheWorlds
        \cup ProbeWorlds \cup HostWorlds \cup RangeWorlds \cup DualWorlds

\* the first allocation number the engine uses
FirstNew == 10

InitIn(W) ==
    /\ \E w \in W : heap = w.heap /\ world = [values |-> w.values, names |-> w.names]
    /\ nextN = FirstNew
    /\ objects = <<>>
    /\ unnamed = <<>>
    /\ unnamedType = {}
    /\ named = <<>>
    /\ pc = "idle"
    /\ todo = {}
    /\ idx = 0
    /\ stack = <<>>
    /\ err = ""
    /\ populates = 0
    /\ heap0 = heap
    /\ byCaller = {}
    /\ failed = FALSE
    /\ listed = <<>>
    /\ ext = NoExtract

Init == InitIn(Worlds)

Next ==
    \/ Provide
    \/ Populate
    \/ Pass1Visit
    \/ Pass1End
    \/ Pass2Visit
    \/ Pass2End
    \/ ExplicitField
    \/ ExplicitReturn
    \/ Pass3Visit
    \/ Pass3End
    \/ Pass4Visit
    \/ Pass4End
    \/ InterfaceField
    \/ InterfaceReturn
    \/ Objects

Spec == Init /\ [][Next]_vars

\* the scenarios of deep_inject_test.go and of the capability examples, each
\* with the same next-state relation
\* the steps inside a running Populate
PopulateStep ==
    \/ Pass1Visit \/ Pass1End \/ Pass2Visit \/ Pass2End
    \/ ExplicitField \/ ExplicitReturn
    \/ Pass3Visit \/ Pass3End \/ Pass4Visit \/ Pass4End
    \/ InterfaceField \/ InterfaceReturn

SpecDeep == InitIn(DeepWorlds) /\ [][Next]_vars

SpecMixed == InitIn(MixedWorlds) /\ [][Next]_vars

SpecCycle == InitIn(CycleWorlds) /\ [][Next]_vars

SpecLogger == InitIn(LoggerWorlds) /\ [][Next]_vars

SpecNode == InitIn(NodeWorlds) /\ [][Next]_vars

SpecInline == InitIn(InlineWorlds) /\ [][Next]_vars

SpecPrivate == InitIn(PrivateWorlds) /\ [][Next]_vars

SpecPlain == InitIn(PlainWorlds) /\ [][Next]_vars

SpecPool == InitIn(PoolWorlds) /\ [][Next]_vars

SpecWired == InitIn(WiredWorlds) /\ [][Next]_vars

SpecShell == InitIn(ShellWorlds) /\ [][Next]_vars

SpecCache == InitIn(CacheWorlds) /\ [][Next]_vars

SpecProbe == InitIn(ProbeWorlds) /\ [][Next]_vars

SpecHost == InitIn(HostWorlds) /\ [][Next]_vars

SpecRange == InitIn(RangeWorlds) /\ [][Next]_vars

SpecDual == InitIn(DualWorlds) /\ [][Next]_vars

\* Populate runs to its end once called: nothing suspends the calling goroutine
FairCycle == SpecCycle /\ WF_vars(PopulateStep)

(* ------------------------------------------------------------------ *)
(* The callers of Extract: struct tags written pair by pair           *)
(* ------------------------------------------------------------------ *)

\* the number of pairs (or broken pairs) in a struct tag
MaxPairs == 3

JsonKey == <<"j", "s", "o", "n">>

TagKeys == {InjectKey, JsonKey}

\* the values written in a tag: empty, with a quote, with a space
TagValues == {<<>>, <<Quote, "a">>, <<"a", " ", "b">>}

\* a value written as the inside of a Go string literal: quotes and
\* backslashes escaped
RECURSIVE Escaped(_)
Escaped(v) ==
    IF v = <<>> THEN <<>>
    ELSE IF Head(v) = Quote \/ Head(v) = Backslash
    THEN <<Backslash, Head(v)>> \o Escaped(Tail(v))
    ELSE <<Head(v)>> \o Escaped(Tail(v))

\* what the author of a tag writes: a pair key:"value", or a broken pair: the
\* key alone (no colon), key:a" (no opening quote), key:"a (no closing quote),
\* key:"\q" (an escape strconv does not know)
TagItems ==
    [kind : {"pair"}, key : TagKeys, value : TagValues]
        \cup [kind : {"nocolon", "noquote", "open", "escape"}, key : TagKeys,
              value : {<<>>}]

Written(item) ==
    CASE item.kind = "pair" ->
            item.key \o <<":", Quote>> \o Escaped(item.value) \o <<Quote>>
      [] item.kind = "nocolon" -> item.key
      [] item.kind = "noquote" -> item.key \o <<":", "a", Quote>>
      [] item.kind = "open" -> item.key \o <<":", Quote, "a">>
      [] item.kind = "escape" -> item.key \o <<":", Quote, Backslash, "q", Quote>>

\* the items separated by one space
RECURSIVE Joined(_)
Joined(items) ==
    IF items = <<>> THEN <<>>
    ELSE IF Len(items) = 1 THEN Written(items[1])
    ELSE Written(items[1]) \o <<" ">> \o Joined(Tail(items))

Spaces(n) == [i \in 1..n |-> " "]

\* the tags of the callers: up to MaxPairs items, with spaces before and after
TagsWritten ==
    {[items |-> items, tag |-> Spaces(lead) \o Joined(items) \o Spaces(trail)] :
        items \in UNION {[1..n -> TagItems] : n \in 0..MaxPairs},
        lead \in 0..1, trail \in 0..1}

InitExtract ==
    /\ \E w \in NodeWorlds :
         heap = w.heap /\ world = [values |-> w.values, names |-> w.names]
    /\ nextN = FirstNew
    /\ objects = <<>>
    /\ unnamed = <<>>
    /\ unnamedType = {}
    /\ named = <<>>
    /\ pc = "idle"
    /\ todo = {}
    /\ idx = 0
    /\ stack = <<>>
    /\ err = ""
    /\ populates = 0
    /\ heap0 = heap
    /\ byCaller = {}
    /\ failed = FALSE
    /\ listed = <<>>
    /\ \E t \in TagsWritten :
         ext = [items |-> t.items, tag |-> t.tag, called |-> FALSE,
                res |-> ExtractNotFound]

\* found, value, err := Extract("inject", tag)
ExtractCall ==
    /\ ~ext.called
    /\ ext' = [ext EXCEPT !.called = TRUE, !.res = Extract(InjectKey, ext.tag)]
    /\ UNCHANGED <<heap, world, nextN, objects, unnamed, unnamedType, named, pc, todo,
                   idx, stack, err, populates, heap0, byCaller, failed, listed>>

SpecExtract == InitExtract /\ [][ExtractCall]_vars

(* ------------------------------------------------------------------ *)
(* A caller of parseTag                                               *)
(* ------------------------------------------------------------------ *)

\* the number of bytes written after a word in a directive value
MaxExtra == 1

\* the values of the inject key: the beginnings of the two directive words,
\* the words themselves, with a space before or bytes after them
DirectiveValues ==
    UNION {{Spaces(lead) \o Take(w, n) \o [i \in 1..m |-> "x"] :
                n \in 0..Len(w), lead \in 0..1, m \in 0..MaxExtra} :
            w \in {InlineValue, PrivateValue}}

\* the tags of the fields: the inject key alone or after a json key
DirectiveTags ==
    {[items |-> <<[kind |-> "pair", key |-> InjectKey, value |-> v]>>,
      tag |-> IF json THEN JsonInjectTag(v) ELSE InjectTag(v)] :
        v \in DirectiveValues, json \in BOOLEAN}

InitParse ==
    /\ \E w \in NodeWorlds :
         heap = w.heap /\ world = [values |-> w.values, names |-> w.names]
    /\ nextN = FirstNew
    /\ objects = <<>>
    /\ unnamed = <<>>
    /\ unnamedType = {}
    /\ named = <<>>
    /\ pc = "idle"
    /\ todo = {}
    /\ idx = 0
    /\ stack = <<>>
    /\ err = ""
    /\ populates = 0
    /\ heap0 = heap
    /\ byCaller = {}
    /\ failed = FALSE
    /\ listed = <<>>
    /\ \E t \in DirectiveTags :
         ext = [items |-> t.items, tag |-> t.tag, called |-> FALSE,
                res |-> [tag |-> NoTag, err |-> FALSE]]

\* tag, err := parseTag(string(fieldTag))
ParseCall ==
    /\ ~ext.called
    /\ ext' = [ext EXCEPT !.called = TRUE, !.res = parseTag(ext.tag)]
    /\ UNCHANGED <<heap, world, nextN, objects, unnamed, unnamedType, named, pc, todo,
                   idx, stack, err, populates, heap0, byCaller, failed, listed>>

SpecParse == InitParse /\ [][ParseCall]_vars

(* ------------------------------------------------------------------ *)
(* Properties                                                         *)
(* ------------------------------------------------------------------ *)

TypeOK ==
    /\ pc \in {"idle", "pass1", "pass2", "pass3", "pass4", "returned", "fatal"}
    /\ Len(stack) <= MaxDepth

\* the Object at position k of g.unnamed
U(k) == objects[unnamed[k]]

Positions == 1..Len(unnamed)

\* the last call was Populate and it has returned
Returned == pc = "returned"

\* ... and it returned nil
Succeeded == pc = "returned" /\ err = ""

\* the caller registered value v itself as an unnamed Object
CallerUnnamed(v) ==
    \E i \in byCaller : objects[i].Value = v /\ objects[i].Name = <<>>

\* the caller registered value v itself, unnamed or named
CallerProvided(v) == \E i \in byCaller : objects[i].Value = v

\* every Object that wraps value v is populated (none is marked Complete)
Incomplete(v) == \A i \in 1..Len(objects) : objects[i].Value = v => ~objects[i].Complete

\* some Object that wraps v has the edge from field i to an Object that wraps w
Edge(v, i, w) ==
    \E j \in 1..Len(objects) :
        /\ objects[j].Value = v
        /\ i \in DOMAIN objects[j].Fields
        /\ objects[objects[j].Fields[i]].Value = w

\* the Objects the engine created, and the Objects of deep injection
Created(k) == U(k).created

Discovered(k) == unnamed[k] \notin byCaller /\ ~U(k).created /\ ~U(k).private

\* C1: after any sequence of provide and populate calls, g.unnamed holds at
\* most one non-private Object per concrete type, whoever registered it, and
\* every named Object is the one its name maps to, so a name maps to one Object.
C1_OnePerTypeAndName ==
    /\ \A j, k \in Positions :
         (~U(j).private /\ ~U(k).private /\ U(j).reflectType = U(k).reflectType)
            => j = k
    /\ \A i \in 1..Len(objects) :
         objects[i].Name # <<>> =>
            objects[i].Name \in DOMAIN named /\ named[objects[i].Name] = i

\* a Populate has returned and g.unnamed holds an Object of the caller, one
\* the engine created and one found by deep injection
C1_Witness ==
    /\ Returned
    /\ \E i, j, k \in Positions :
         unnamed[i] \in byCaller /\ Created(j) /\ Discovered(k)

\* the unnamed Object of value v is populated: it is not marked Complete
PopulatedUnnamed(v) == \A k \in Positions : U(k).Value = v => ~U(k).Complete

\* the field i of the struct at a carries an inject tag
Tagged(a, i) == ~FieldTag[a.e][i].err /\ ~FieldTag[a.e][i].tag.IsNil

ServiceAs == {v \in world.values : v.k = "ptr" /\ v.e = "ServiceA"}

ServiceBs == {v \in world.values : v.k = "ptr" /\ v.e = "ServiceB"}

ServiceCs == {v \in world.values : v.k = "ptr" /\ v.e = "ServiceC"}

\* a and b are registered unnamed by the caller, b.A was nil when Populate
\* was called and b is populated
C2_Case(a, b) ==
    /\ CallerUnnamed(a) /\ CallerUnnamed(b)
    /\ heap0[b][1] = Zero
    /\ PopulatedUnnamed(b)

\* C2: with a ServiceA a and a ServiceB b (bare-tagged nil field A) both
\* registered unnamed, in either order, a successful Populate leaves b.A == a,
\* tracks no second ServiceA and records the edge from field A of b to the
\* Object of a.
C2_SharedInstance ==
    Succeeded =>
        \A a \in ServiceAs, b \in ServiceBs :
            C2_Case(a, b) =>
                /\ heap[b][1] = a
                /\ Edge(b, 1, a)
                /\ \A i \in 1..Len(objects) :
                     objects[i].reflectType = PtrTo("ServiceA") => objects[i].Value = a

\* b was registered before a, and Populate succeeded
C2_Witness ==
    /\ Succeeded
    /\ \E a \in ServiceAs, b \in ServiceBs :
         /\ C2_Case(a, b)
         /\ heap[b][1] = a
         /\ \E j, k \in Positions : j < k /\ U(j).Value = b /\ U(k).Value = a

\* c.B was the hand-built b with b.A nil when Populate was called; c and a are
\* registered unnamed by the caller, b is not registered by the caller
C3_Case(a, b, c) ==
    /\ heap0[c][1] = b
    /\ heap0[b][1] = Zero
    /\ CallerUnnamed(c) /\ CallerUnnamed(a)
    /\ ~CallerProvided(b)
    /\ PopulatedUnnamed(c)

\* C3: deep injection: with c (c.B the hand-built b, b.A nil) and a registered
\* unnamed and b never registered by the caller, after a successful Populate
\* c.B is still b and c.B.A == a.
C3_DeepInjection ==
    Succeeded =>
        \A a \in ServiceAs, b \in ServiceBs, c \in ServiceCs :
            C3_Case(a, b, c) => heap[c][1] = b /\ heap[b][1] = a

\* the case of TestDeepInjectWithMixedProvision is reached and works there
C3_Reached ==
    /\ Succeeded
    /\ \E a \in ServiceAs, b \in ServiceBs, c \in ServiceCs :
         C3_Case(a, b, c) /\ heap[c][1] = b /\ heap[b][1] = a

\* C4: Populate never overwrites a value: every tagged field that held a
\* non-zero value when Populate was called holds that value in every state of
\* the run and when Populate has returned, with or without an error.
C4_NoOverwrite ==
    \A a \in DOMAIN heap0 :
        \A i \in 1..NumField(a.e) :
            (Tagged(a, i) /\ Types[a.e][i].type.k # "struct" /\ heap0[a][i] # Zero)
                => heap[a][i] = heap0[a][i]

\* Populate has returned after filling b.A inside the hand-built c.B == b, or
\* with an error, and a value was set two levels below a registered Object
C4_Witness ==
    /\ Returned
    /\ \E c \in ServiceCs :
         /\ CallerUnnamed(c)
         /\ heap0[c][1] # Zero
         /\ heap0[heap0[c][1]][1] = Zero
         /\ heap[heap[c][1]][1] # Zero

CircularAs == {v \in world.values : v.k = "ptr" /\ v.e \in {"CircularA", "PtrA"}}

CircularBs == {v \in world.values : v.k = "ptr" /\ v.e \in {"CircularB", "PtrB"}}

\* the number of Objects of g.unnamed that wrap v
Records(v) == Cardinality({k \in Positions : U(k).Value = v})

\* a.B == b and b.A == a when Populate was called, and the caller registered
\* both unnamed
C5_Case(a, b) ==
    /\ heap0[a][1] = b /\ heap0[b][1] = a
    /\ CallerUnnamed(a) /\ CallerUnnamed(b)

C6_PopulateReturns == ~(pc = "fatal" /\ err = "stack overflow")

\* the bare-tagged Logger field of a UserService, examined by
\* populateUnnamedInterface while still unset
C7_Case ==
    /\ pc \in {"pass3", "pass4"} /\ stack # <<>>
    /\ objects[Top.o].Value.e = "UserService"
    /\ Top.i = 1
    /\ heap[objects[Top.o].Value][1] = Zero

\* the non-private Objects of g.unnamed whose type has the methods of Logger
C7_Pool ==
    {k \in Positions :
        ~U(k).private /\ U(k).reflectType \in {PtrTo("ServiceA"), PtrTo("ServiceB")}}

\* C7: in passes 3-4 the outcome for a bare-tagged, still unset Logger field
\* is decided by the number of non-private unnamed Objects whose type
\* implements Logger: one gives the assignment of its value with the edge,
\* none the no-assignable-value error, two or more the ambiguity error.
C7_CandidateCount ==
    [][C7_Case =>
        /\ Cardinality(C7_Pool) = 0 =>
             /\ pc' = "returned" /\ err' = "found no assignable value for field"
             /\ heap' = heap
        /\ Cardinality(C7_Pool) = 1 =>
             /\ pc' = pc /\ err' = err
             /\ \E k \in C7_Pool :
                  /\ heap'[objects[Top.o].Value][1] = U(k).Value
                  /\ objects'[Top.o].Fields = (1 :> unnamed[k]) @@ objects[Top.o].Fields
        /\ Cardinality(C7_Pool) >= 2 =>
             /\ pc' = "returned" /\ err' = "found two assignable values for field"
      ]_vars

\* a Logger field was assigned the one candidate while a private ServiceA and
\* a named Object that implements Logger are tracked
C7_Witness ==
    /\ Succeeded
    /\ \E i \in 1..Len(objects) :
         /\ objects[i].Value.e = "UserService"
         /\ 1 \in DOMAIN objects[i].Fields
         /\ heap[objects[i].Value][1] # Zero
    /\ \/ \E k \in Positions : U(k).private /\ U(k).reflectType = PtrTo("ServiceA")
       \/ \E n \in DOMAIN named :
            objects[named[n]].reflectType \in {PtrTo("ServiceA"), PtrTo("ServiceB")}

\* the Logger field of an OrderService, tagged inject:"lg", examined by
\* populateExplicit while still unset
C8_Case ==
    /\ pc \in {"pass1", "pass2"} /\ stack # <<>>
    /\ objects[Top.o].Value.e = "OrderService"
    /\ Top.i = 1
    /\ heap[objects[Top.o].Value][1] = Zero

\* C8: an unset capability field tagged with a name is resolved only against
\* the Object registered under that name: it gets that Object's value if it is
\* assignable, Populate fails with the missing-named error if there is none
\* and with the not-assignable error if its type does not fit, whatever the
\* unnamed Objects are; and the field never holds anything else.
C8_NamedOnly ==
    /\ [][C8_Case =>
            /\ NameLg \notin DOMAIN named =>
                 /\ pc' = "returned" /\ err' = "did not find object named"
                 /\ heap' = heap
            /\ (NameLg \in DOMAIN named /\
                objects[named[NameLg]].reflectType \in {PtrTo("ServiceA"), PtrTo("ServiceB")})
                 => /\ heap'[objects[Top.o].Value][1] = objects[named[NameLg]].Value
                    /\ pc' = pc /\ err' = err
            /\ (NameLg \in DOMAIN named /\
                objects[named[NameLg]].reflectType \notin {PtrTo("ServiceA"), PtrTo("ServiceB")})
                 => /\ pc' = "returned"
                    /\ err' = "object named is not assignable to field"
                    /\ heap' = heap
         ]_vars
    /\ [](\A v \in DOMAIN heap :
            (v.e = "OrderService" /\ heap[v][1] # Zero) =>
                NameLg \in DOMAIN named /\ heap[v][1] = objects[named[NameLg]].Value)

\* the named field was assigned although an unnamed Object implements Logger,
\* or Populate failed on the missing name although one does
C8_Witness ==
    /\ Returned
    /\ \E k \in Positions : ~U(k).private /\ U(k).reflectType = PtrTo("ServiceB")
    /\ \E i \in 1..Len(objects) :
         /\ objects[i].Value.e = "OrderService"
         /\ heap[objects[i].Value][1] = Ptr("ServiceA", 3, <<>>)

\* what g.Provide(o) returned (r) for an unnamed Object o with no dependency
\* map, against g.unnamed as it is
C9_Outcome(o, r) ==
    /\ (r.err = "provided two unnamed instances of type")
         <=> /\ isStructPtr(o.reflectType)
             /\ ~o.private
             /\ \E k \in Positions :
                  ~U(k).private /\ U(k).reflectType = o.reflectType
    /\ (/\ isStructPtr(o.reflectType)
        /\ \/ o.private
           \/ \A k \in Positions :
                U(k).reflectType = o.reflectType => U(k).private)
         => /\ r.err = ""
            /\ Len(r.g.unnamed) = Len(unnamed) + 1
            /\ r.g.objects[r.g.unnamed[Len(r.g.unnamed)]] = o
            /\ \A k \in Positions : r.g.objects[r.g.unnamed[k]] = U(k)

\* C9: in every state, Provide of an unnamed non-private Object fails with the
\* duplicate-type error exactly when g.unnamed holds a non-private Object of
\* the same type; when the new Object or every tracked Object of its type is
\* private, it is accepted and g.unnamed holds it and the earlier ones.
C9_DuplicateType ==
    \A v \in world.values, private \in BOOLEAN :
        C9_Outcome(Object(v, <<>>, FALSE, NilFields, private, FALSE, FALSE),
                   ProvideOne(Graph, Object(v, <<>>, FALSE, NilFields, private, FALSE,
                                            FALSE)))

\* the caller registered a ServiceA after the engine had created a private
\* one, and g.unnamed holds both
C9_Witness ==
    \E j, k \in Positions :
        /\ j < k
        /\ U(j).private /\ ~U(k).private
        /\ U(j).reflectType = U(k).reflectType
        /\ unnamed[k] \in byCaller

\* C10: no error is swallowed: when a step of a Populate that has returned
\* failed, a Provide call of the engine included, Populate returned an error.
C10_NoErrorSwallowed == (Returned /\ failed) => err # ""

\* everything the Graph and the heap held before a step is still there after
\* it, but for the field the step was at (field i of Object o)
KeptBut(o, i) ==
    /\ \A a \in DOMAIN heap : \A f \in DOMAIN heap[a] :
         heap'[a][f] # heap[a][f] => (a = objects[o].Value /\ f = i)
    /\ Len(objects') >= Len(objects)
    /\ \A j \in 1..Len(objects) :
         /\ [objects'[j] EXCEPT !.Fields = <<>>] = [objects[j] EXCEPT !.Fields = <<>>]
         /\ \A f \in DOMAIN objects[j].Fields :
              f \in DOMAIN objects'[j].Fields /\ objects'[j].Fields[f] = objects[j].Fields[f]
    /\ Len(unnamed') >= Len(unnamed)
    /\ \A k \in Positions : unnamed'[k] = unnamed[k]
    /\ \A n \in DOMAIN named : n \in DOMAIN named' /\ named'[n] = named[n]

\* C11: Populate is fail-fast without rollback: the step at which something
\* fails first is the step at which Populate returns an error, nothing is
\* visited after it, and every assignment, edge and registration made before
\* it is still in place.
C11_FailFast ==
    [][(~failed /\ failed') =>
          /\ pc' = "returned" /\ err' # ""
          /\ stack # <<>> /\ KeptBut(Top.o, Top.i)
      ]_vars

\* the Objects of g.unnamed and g.named
TrackedObjects == {unnamed[k] : k \in Positions} \cup {named[n] : n \in DOMAIN named}

\* C12: Objects returns, as a permutation, exactly the tracked Objects (of
\* g.unnamed and g.named) that are not embedded, each once, whoever
\* registered them, and changes nothing of the Graph.
C12_ObjectsListed ==
    [][listed' # listed =>
          /\ \A i, j \in DOMAIN listed' : listed'[i] = listed'[j] => i = j
          /\ {listed'[i] : i \in DOMAIN listed'}
                = {o \in TrackedObjects : ~objects[o].embedded}
          /\ UNCHANGED <<objects, unnamed, unnamedType, named, heap>>
      ]_vars

\* a returned slice holds a created Object and the Object of the inline
\* field Cfg, not in the order of g.unnamed, and leaves out the Object of the
\* embedded Base
C12_Witness ==
    /\ \E i, j \in DOMAIN listed :
         /\ objects[listed[i]].created
         /\ objects[listed[j]].private /\ ~objects[listed[j]].embedded
    /\ \E i, j \in DOMAIN listed : i < j /\ listed[i] > listed[j]
    /\ \E o \in TrackedObjects : objects[o].embedded

\* the caller registered v, and only in Objects marked Complete
OnlyComplete(v) ==
    /\ CallerProvided(v)
    /\ \A i \in byCaller : objects[i].Value = v => objects[i].Complete

\* C13: a value the caller registered in an Object marked Complete, named or
\* unnamed, is skipped entirely: when Populate has returned none of its fields
\* has been assigned and its Object has no dependency edge, also when a tagged
\* field of another tracked value points at it.
C13_CompleteSkipped ==
    Returned =>
        \A v \in world.values :
            (v.k = "ptr" /\ OnlyComplete(v)) =>
                /\ heap[v] = heap0[v]
                /\ \A i \in byCaller : objects[i].Value = v => objects[i].Fields = <<>>

\* the fields (address and index) of the heap that hold the value v
Holders(v) == {c \in (DOMAIN heap) \X (1..2) : c[2] \in DOMAIN heap[c[1]] /\ heap[c[1]][c[2]] = v}

\* field i of a struct of type T is a pointer field tagged private
PrivateField(T, i) ==
    /\ Types[T][i].type.k = "ptr"
    /\ Types[T][i].tag = InjectTag(PrivateValue)

\* some Object that wraps v is populated (it is not marked Complete)
Visited(v) == \E i \in 1..Len(objects) : objects[i].Value = v /\ ~objects[i].Complete

\* C14: the value of a created private Object is held by at most one field, a
\* private-tagged one, in every state; and after a successful Populate every
\* private-tagged pointer field of a populated value that was nil holds a
\* value created by this Populate, tracked as a private created Object, also
\* when a non-private Object of the type is tracked.
C14_PrivateExclusive ==
    /\ \A k \in Positions :
         (U(k).private /\ U(k).created) =>
            /\ Cardinality(Holders(U(k).Value)) <= 1
            /\ \A c \in Holders(U(k).Value) : PrivateField(c[1].e, c[2])
    /\ Succeeded =>
         \A v \in world.values :
            (v.k = "ptr" /\ CallerProvided(v) /\ Visited(v)) =>
                \A i \in 1..NumField(v.e) :
                    (PrivateField(v.e, i) /\ heap0[v][i] = Zero) =>
                        /\ heap[v][i] \notin DOMAIN heap0
                        /\ \E k \in Positions :
                             U(k).Value = heap[v][i] /\ U(k).private /\ U(k).created

\* both private fields of the Twin were filled while a ServiceA of the caller
\* is tracked and was assigned to a bare field or a capability field
C14_Witness ==
    /\ Succeeded
    /\ \E t \in world.values :
         /\ t.k = "ptr" /\ t.e = "Twin" /\ CallerProvided(t)
         /\ heap[t][1] # Zero /\ heap[t][2] # Zero /\ heap[t][1] # heap[t][2]
    /\ \E a \in world.values :
         /\ a.k = "ptr" /\ a.e = "ServiceA" /\ CallerUnnamed(a)
         /\ Holders(a) # {}

\* the tag was written as well-formed pairs only
WellFormed(items) == \A i \in DOMAIN items : items[i].kind = "pair"

\* the positions of the pairs whose key is the directive key
WithKey(items, key) == {i \in DOMAIN items : items[i].key = key}

\* C15: for a tag made only of well-formed key:"value" pairs, Extract returns
\* found = true with the unescaped value of the first pair whose key is the
\* directive key (an empty value included), and found = false, value "" and
\* no error when no pair has the key, also for an empty or all-spaces tag.
C15_ExtractWellFormed ==
    (ext.called /\ WellFormed(ext.items)) =>
        IF WithKey(ext.items, InjectKey) = {}
        THEN ext.res = [found |-> FALSE, value |-> <<>>, err |-> FALSE]
        ELSE ext.res = [found |-> TRUE,
                        value |-> ext.items[Min(WithKey(ext.items, InjectKey))].value,
                        err |-> FALSE]

\* Extract returned the value with an escaped quote of the second pair that
\* has the directive key, after a pair with another key
C15_Witness ==
    /\ ext.called /\ WellFormed(ext.items)
    /\ Len(ext.items) = 3
    /\ ext.items[1].key = JsonKey /\ ext.items[2].key = InjectKey
    /\ ext.items[3].key = InjectKey /\ ext.items[3].value # ext.items[2].value
    /\ ext.res.found /\ ext.res.value = <<Quote, "a">>

\* the tag holds a broken pair (one with no closing quote only as its last
\* item, where nothing that follows can close the quote)
Malformed(items) ==
    \E i \in DOMAIN items :
        /\ items[i].kind # "pair"
        /\ items[i].kind = "open" => i = Len(items)

\* C16: Extract returns an error, found = false and an empty value for every
\* tag that holds a pair with a missing colon, a missing opening quote, an
\* unterminated quote or an invalid escape, before or after the pair with the
\* directive key and whatever the key of the broken pair.
C16_ExtractMalformed ==
    (ext.called /\ Malformed(ext.items)) => ext.res = ExtractError

\* field i of struct type T has no inject key in its tag
Untagged(T, i) == Types[T][i].tag \in {<<>>, JsonTag}

\* the values the caller built and did not provide
Unprovided ==
    {v \in DOMAIN heap0 : v.p = <<>> /\ v.n < FirstNew /\ v \notin world.values}

\* C17: a field with no inject key is not managed: populate never assigns it,
\* never stops with an error at it (whatever its type, visibility or value),
\* and never registers or changes the value it holds.
C17_UntaggedUnmanaged ==
    [][/\ \A v \in DOMAIN heap0 : \A i \in 1..NumField(v.e) :
            Untagged(v.e, i) => heap'[v][i] = heap0[v][i]
       /\ \A v \in Unprovided :
            /\ heap'[v] = heap0[v]
            /\ \A k \in 1..Len(objects') : objects'[k].Value # v
       /\ (~failed /\ failed') =>
            (stack # <<>> /\ ~Untagged(objects[Top.o].Value.e, Top.i))
      ]_vars

\* Populate succeeded on a Plain whose tagged field A was filled with the
\* provided ServiceA, while its unexported dep still holds the hand-built
\* ServiceB with a nil A and its Log is nil beside a provided Logger
C17_Witness ==
    /\ Succeeded
    /\ \E p \in world.values : \E b \in Unprovided :
         /\ p.e = "Plain" /\ CallerUnnamed(p)
         /\ heap[p][1] = b /\ heap[b][1] = Zero
         /\ heap[p][2] = Zero
         /\ heap[p][3] # Zero /\ CallerUnnamed(heap[p][3])

\* the values wrapped by the Objects of the graph
Registered == {objects[i].Value : i \in 1..Len(objects)}

\* a tagged field of v holds w
DependsOn(v, w) ==
    /\ v \in DOMAIN heap
    /\ \E i \in DOMAIN heap[v] : ~Untagged(v.e, i) /\ heap[v][i] = w

\* w is reached from v in at most k steps through tagged fields of
\* registered values
RECURSIVE Reaches(_, _, _)
Reaches(v, w, k) ==
    /\ k > 0
    /\ \/ DependsOn(v, w)
       \/ \E x \in Registered : DependsOn(v, x) /\ Reaches(x, w, k - 1)

Cyclic == \E v \in Registered : Reaches(v, v, Cardinality(Registered))

\* C18: circular dependencies are detected and reported: Populate returns an
\* error whenever the dependencies among the registered instances, through
\* their tagged fields, form a cycle.
C18_CycleReported == (Returned /\ Cyclic) => err # ""

\* field i of the struct at v is a pointer-to-struct field with an inject tag
\* other than private
DeepField(v, i) ==
    /\ isStructPtr(Types[v.e][i].type)
    /\ Tagged(v, i)
    /\ ~FieldTag[v.e][i].tag.Private

\* C19: after a successful Populate, every non-nil pointer held in a tagged,
\* non-private pointer field of a populated (not Complete) Object is the Value
\* of an Object of g.unnamed and, unless that Object is Complete, has none of
\* its own tagged pointer fields left nil, also when another non-private
\* Object of the same type is registered.
C19_HeldValuesTracked ==
    Succeeded =>
        \A o \in {x \in 1..Len(objects) : objects[x].Value \in DOMAIN heap} :
            \A i \in 1..NumField(objects[o].Value.e) :
                \E v \in {objects[o].Value} : \E w \in {heap[v][i]} :
                    (~objects[o].Complete /\ DeepField(v, i) /\ w # Zero) =>
                        /\ \E k \in Positions : U(k).Value = w
                        /\ Incomplete(w) =>
                             \A j \in 1..NumField(w.e) :
                                 (Tagged(w, j) /\ isStructPtr(Types[w.e][j].type))
                                    => heap[w][j] # Zero

\* what populateExplicit leaves behind on the struct at v when it returns
\* nil: no pointer-to-struct field and no named field with an inject tag is nil
Processed(h, v) ==
    \A i \in 1..NumField(v.e) :
        (Tagged(v, i) /\ (isStructPtr(Types[v.e][i].type) \/ FieldTag[v.e][i].tag.Name # <<>>))
            => h[v][i] # Zero

\* C20: pass 2 reaches every Object: it ends, without error, exactly when its
\* index equals the current length of g.unnamed, and then every Object of
\* g.unnamed that is not Complete, also one appended during pass 1 or pass 2
\* (created, discovered by deep injection, inline), has been processed by
\* populateExplicit.
C20_Pass2ReachesAll ==
    [][(pc = "pass2" /\ pc' = "pass3") =>
          /\ idx = Len(unnamed') /\ err' = ""
          /\ \A k \in 1..Len(unnamed') :
                ~objects'[unnamed'[k]].Complete =>
                    Processed(heap', objects'[unnamed'[k]].Value)
      ]_vars

\* pass 2 has ended on a sequence that holds, after the Object of the caller,
\* an Object discovered by deep injection and an Object created for it
C20_Witness ==
    /\ pc = "pass3" /\ err = ""
    /\ \E j, k \in Positions :
         /\ Discovered(j) /\ Created(k)
         /\ heap[U(j).Value][1] = U(k).Value
    /\ \E k \in Positions : unnamed[k] \in byCaller /\ ~U(k).Complete

\* field i of struct type T is an interface field whose tag has no name: the
\* engine fills it by searching g.unnamed
SearchField(T, i) ==
    /\ Types[T][i].type.k = "iface"
    /\ Types[T][i].tag \in {InjectTag(<<>>), JsonInjectTag(<<>>)}

\* C21: capability resolution sees the final pool: no interface field filled
\* by search is assigned outside passes 3 and 4, and no step of passes 3 and 4
\* creates or registers an Object, so g.unnamed and g.named are at the end of
\* pass 4 what they were at the start of pass 3.
C21_FinalPool ==
    [][/\ pc \notin {"pass3", "pass4"} =>
            \A v \in DOMAIN heap : \A i \in DOMAIN heap[v] :
                SearchField(v.e, i) => heap'[v][i] = heap[v][i]
       /\ pc \in {"pass3", "pass4"} =>
            /\ UNCHANGED <<unnamed, unnamedType, named, nextN>>
            /\ Len(objects') = Len(objects)
            /\ DOMAIN heap' = DOMAIN heap
      ]_vars

\* Populate succeeded and the Logger field of the UserService, registered
\* first, holds the ServiceA the engine created for the Base in pass 2
C21_Witness ==
    /\ Succeeded
    /\ \E j, k \in Positions :
         /\ j < k
         /\ U(j).Value.e = "UserService" /\ unnamed[j] \in byCaller
         /\ Created(k) /\ ~U(k).private
         /\ heap[U(j).Value][1] = U(k).Value
         /\ heap0[U(j).Value][1] = Zero

\* field i of struct type T is a pointer-to-struct field with the bare tag
BareField(T, i) ==
    /\ isStructPtr(Types[T][i].type)
    /\ Types[T][i].tag \in {InjectTag(<<>>), JsonInjectTag(<<>>)}

\* the positions of g.unnamed with a non-private Object of type t
NonPrivate(t) == {k \in Positions : ~U(k).private /\ U(k).reflectType = t}

\* the bare pointer fields Populate found nil: in a value built before the
\* call, or in a value made during it
NilBefore(v, i) == v \in DOMAIN heap0 => heap0[v][i] = Zero

\* C22: one shared instance per type: after a successful Populate every bare
\* pointer field, nil before, of every populated Object holds the value of the
\* one non-private Object of g.unnamed of its type; and the engine makes a new
\* value for a bare field only when g.unnamed holds no non-private Object of
\* that type at that moment.
C22_SharedPerType ==
    [][/\ (pc' = "returned" /\ err' = "") =>
            \A o \in 1..Len(objects') : \E v \in {objects'[o].Value} :
                (~objects'[o].Complete /\ v \in DOMAIN heap') =>
                    \A i \in DOMAIN heap'[v] :
                        (BareField(v.e, i) /\ NilBefore(v, i)) =>
                            /\ Cardinality(NonPrivate(Types[v.e][i].type)') = 1
                            /\ \A k \in NonPrivate(Types[v.e][i].type)' :
                                 heap'[v][i] = objects'[unnamed'[k]].Value
       /\ \A w \in DOMAIN heap' \ DOMAIN heap :
            (w.p = <<>> /\ stack # <<>> /\ BareField(objects[Top.o].Value.e, Top.i))
                => NonPrivate(PtrTo(w.e)) = {}
      ]_vars

\* Populate succeeded on an Outer alone: its two inline Base structs were
\* populated and their A fields hold the one ServiceA the engine created
C22_Witness ==
    /\ Succeeded
    /\ \E j, k \in Positions : \E c \in Positions :
         /\ j # k
         /\ U(j).Value.e = "Base" /\ U(k).Value.e = "Base"
         /\ Created(c) /\ ~U(c).private
         /\ heap[U(j).Value][1] = U(c).Value
         /\ heap[U(k).Value][1] = U(c).Value

\* the name in the tag of field i of struct type T, <<>> if it has none
TagName(T, i) ==
    IF Types[T][i].tag = InjectTag(NameLg) THEN NameLg
    ELSE IF Types[T][i].tag = InjectTag(NameDb) THEN NameDb
    ELSE <<>>

\* a value of type t can be assigned to a field declared with type ft
Fits(t, ft) ==
    IF ft.k = "iface"
    THEN ft.e = "any" \/ (ft.e = "Logger" /\ t \in {PtrTo("ServiceA"), PtrTo("ServiceB")})
    ELSE t = ft

\* populateExplicit is at an unset field tagged with a name
C23_Case ==
    /\ pc \in {"pass1", "pass2"} /\ stack # <<>>
    /\ Top.i <= NumField(objects[Top.o].Value.e)
    /\ TagName(objects[Top.o].Value.e, Top.i) # <<>>
    /\ heap[objects[Top.o].Value][Top.i] = Zero

\* C23: for an unset field tagged with a name, whatever its kind, Populate
\* assigns the value of the Object registered under the name and records the
\* edge, or fails: with the missing-named error if no Object has the name, with
\* the not-assignable error if the type of that Object does not fit the field;
\* when it fails the field stays unset and no edge is recorded.
C23_NamedField ==
    [][C23_Case =>
        \E v \in {objects[Top.o].Value} : \E nm \in {TagName(v.e, Top.i)} :
            IF nm \notin DOMAIN named
            THEN /\ pc' = "returned" /\ err' = "did not find object named"
                 /\ heap' = heap /\ objects' = objects
            ELSE IF ~Fits(objects[named[nm]].reflectType, Types[v.e][Top.i].type)
            THEN /\ pc' = "returned"
                 /\ err' = "object named is not assignable to field"
                 /\ heap' = heap /\ objects' = objects
            ELSE /\ pc' = pc /\ err' = err
                 /\ heap' = [heap EXCEPT ![v][Top.i] = objects[named[nm]].Value]
                 /\ objects' = [objects EXCEPT
                                  ![Top.o].Fields = (Top.i :> named[nm]) @@ @]
      ]_vars

\* Populate succeeded and assigned the named pointer field, the named string
\* field and the named interface field of a Wired, each with its edge
C23_Witness ==
    /\ Succeeded
    /\ \E o \in 1..Len(objects) : \E v \in {objects[o].Value} :
         /\ v.e = "Wired"
         /\ heap[v][1].k = "ptr" /\ heap[v][2].k = "string" /\ heap[v][3] = heap[v][1]
         /\ DOMAIN objects[o].Fields = {1, 2, 3}

\* field i of struct type T is a struct field tagged inline
InlineField(T, i) ==
    Types[T][i].type.k = "struct" /\ Types[T][i].tag = InjectTag(InlineValue)

\* the inline struct at address w is an Object of g.unnamed, private, embedded
\* iff the field is anonymous, and none of its bare pointer fields is nil
Traversed(w, anonymous) ==
    /\ \E k \in Positions :
         U(k).Value = w /\ U(k).private /\ (U(k).embedded <=> anonymous)
    /\ \A j \in DOMAIN heap[w] : BareField(w.e, j) => heap[w][j] # Zero

\* C24: every inline struct field of a populated Object is traversed in place:
\* after a successful Populate its address is a private Object (embedded iff
\* the field is anonymous), its tagged nil fields are filled and the field
\* itself was not assigned, whether the struct was zero or had a field set
\* before Populate.
C24_InlineTraversed ==
    Succeeded =>
        \A o \in 1..Len(objects) : \E v \in {objects[o].Value} :
            (~objects[o].Complete /\ v \in DOMAIN heap /\ v \in DOMAIN heap0) =>
                \A i \in DOMAIN heap[v] :
                    InlineField(v.e, i) =>
                        /\ heap[v][i] = heap0[v][i]
                        /\ Traversed(heap[v][i], Types[v.e][i].anonymous)

\* Populate succeeded on a Shell whose Cfg was zero: Cfg was traversed, its
\* two fields are filled
C24_Reached ==
    /\ Succeeded
    /\ \E o \in 1..Len(objects) : \E v \in {objects[o].Value} :
         /\ v.e = "Shell" /\ ~objects[o].Complete
         /\ isZeroStruct(heap0, heap0[v][1])
         /\ Traversed(heap[v][1], FALSE)

\* some Object that wraps v has an edge from its field i to an Object whose
\* Value is what the field holds, in the state (objs, h)
HasEdge(objs, h, v, i) ==
    \E o \in 1..Len(objs) :
        /\ objs[o].Value = v
        /\ i \in DOMAIN objs[o].Fields
        /\ objs[objs[o].Fields[i]].Value = h[v][i]

\* C25: dependency edges are consistent in every reachable state: the field of
\* an edge holds the Value of the Object of the edge; every pointer or
\* interface field the engine assigns has such an edge, a private map field
\* and an inline field have none; and an Object has no edge when it is
\* registered.
C25_EdgesConsistent ==
    [][/\ \A o \in 1..Len(objects') : \A f \in DOMAIN objects'[o].Fields :
            /\ heap'[objects'[o].Value][f] = objects'[objects'[o].Fields[f]].Value
            /\ Types[objects'[o].Value.e][f].type.k \notin {"map", "struct"}
       /\ \A v \in DOMAIN heap : \A i \in DOMAIN heap[v] :
            (heap'[v][i] # heap[v][i] /\ Types[v.e][i].type.k \in {"ptr", "iface"})
                => HasEdge(objects', heap', v, i)
       /\ \A o \in (1..Len(objects')) \ (1..Len(objects)) :
            objects'[o].Fields = <<>>
      ]_vars

\* Populate succeeded on a Cache: its map was made, its pointer and Logger
\* fields have their edges and its inline Base is an Object with its own edge
C25_Witness ==
    /\ Succeeded
    /\ \E o \in 1..Len(objects) : \E v \in {objects[o].Value} :
         /\ v.e = "Cache"
         /\ heap[v][1].k = "map"
         /\ DOMAIN objects[o].Fields = {2, 3}
         /\ \E k \in Positions :
              U(k).Value = heap[v][4] /\ DOMAIN U(k).Fields = {1}

\* populateUnnamedInterface is at a field of an Object
C26_Case ==
    /\ pc \in {"pass3", "pass4"} /\ stack # <<>>
    /\ Top.i <= NumField(objects[Top.o].Value.e)

\* C26: the panic of populateUnnamedInterface is unreachable: whenever pass 3
\* or pass 4 is at a field of a populated Object, no interface field of that
\* Object tagged with a name is still unset (passes 1 and 2 assigned it or
\* made Populate return an error), and Populate never ends in the panic.
C26_NoUnhandledNamed ==
    /\ C26_Case =>
         \E v \in {objects[Top.o].Value} :
             /\ ~objects[Top.o].Complete
             /\ \A i \in DOMAIN heap[v] :
                  (Types[v.e][i].type.k = "iface" /\ TagName(v.e, i) # <<>>)
                      => heap[v][i] # Zero
    /\ ~(pc = "fatal" /\ err = "unhandled named instance")

\* pass 3 or 4 is at the Logger field of a Wired, tagged with a name, which
\* pass 1 or 2 has assigned
C26_Witness ==
    /\ C26_Case
    /\ objects[Top.o].Value.e = "Wired"
    /\ Top.i = 3
    /\ heap[objects[Top.o].Value][3] # Zero
    /\ heap0[objects[Top.o].Value][3] = Zero

\* field i of struct type T is an interface field tagged private
PrivateInterface(T, i) ==
    Types[T][i].type.k = "iface" /\ Types[T][i].tag = InjectTag(PrivateValue)

\* a field loop is at an interface field tagged private
C27_Case ==
    /\ stack # <<>>
    /\ Top.i <= NumField(objects[Top.o].Value.e)
    /\ PrivateInterface(objects[Top.o].Value.e, Top.i)

\* the Objects Populate visits: of g.unnamed or g.named, not Complete
Visits(o) ==
    /\ ~objects[o].Complete
    /\ o \in {unnamed[k] : k \in Positions} \cup {named[n] : n \in DOMAIN named}

Written28 == ext.items[1].value

\* C28: the directive is a total function of the extracted value with
\* exclusive results: "" gives the bare directive, exactly "inline" the inline
\* one, exactly "private" the private one, any other string a directive with
\* that string as its name; at most one of name, inline and private is set.
C28_Classification ==
    ext.called =>
        /\ ~ext.res.err
        /\ ~ext.res.tag.IsNil
        /\ ext.res.tag.Inline <=> Written28 = InlineValue
        /\ ext.res.tag.Private <=> Written28 = PrivateValue
        /\ ext.res.tag.Name =
             IF Written28 \in {InlineValue, PrivateValue} THEN <<>> ELSE Written28
        /\ Cardinality({c \in {"name", "inline", "private"} :
                          \/ c = "name" /\ ext.res.tag.Name # <<>>
                          \/ c = "inline" /\ ext.res.tag.Inline
                          \/ c = "private" /\ ext.res.tag.Private}) <= 1

\* parseTag read "privatex", written after a json key, as a name
C28_Witness ==
    /\ ext.called
    /\ Written28 = PrivateValue \o <<"x">>
    /\ ext.tag = JsonInjectTag(Written28)
    /\ ext.res.tag.Name = Written28

\* the errors of Provide
ProvideErrors ==
    {"fields were specified on object",
     "expected unnamed object value to be a pointer to a struct",
     "provided two unnamed instances of type",
     "provided two instances named"}

\* a step that is a call of Provide by the caller
ProvideStep == pc \in {"idle", "returned"} /\ pc' = "idle" /\ listed' = listed

\* C29: a Provide that returns an error (dependency map filled in, unnamed
\* value that is no pointer to a struct, second non-private Object of a type,
\* second Object of a name) leaves g.unnamed, g.unnamedType and g.named as
\* they were, and every Object registered before it is the Object it was.
C29_RejectedNotAdded ==
    [][(ProvideStep /\ err' \in ProvideErrors) =>
         /\ unnamed' = unnamed
         /\ unnamedType' = unnamedType
         /\ named' = named
         /\ objects' = objects]_vars

\* Provide refused a second Object of a type or of a name and the Graph holds
\* the Object registered first
C29_Witness ==
    /\ pc = "idle"
    /\ err \in {"provided two unnamed instances of type", "provided two instances named"}
    /\ unnamed # <<>>
    /\ named # <<>>

\* C30: no two Objects of g.unnamed wrap the same value: not a value the
\* engine created, one it found in a field, or the address of an inline field
\* that a recursive call and the indexed pass both examine.
C30_TrackedOnce ==
    \A j, k \in Positions : j # k => U(j).Value # U(k).Value

\* the address of the inline field of a struct the engine created is in
\* g.unnamed twice, with no Object registered under a name
C30_InlineTwice ==
    /\ named = <<>>
    /\ \E j, k \in Positions :
         /\ j < k
         /\ U(j).Value = U(k).Value
         /\ U(j).Value.p # <<>>
         /\ U(j).Value.n >= FirstNew
         /\ U(j).private /\ U(k).private

\* the Graph of the caller: the first ServiceC registered under "lg", then
\* the second under "db", neither complete, nothing else, and one Populate
\* that has returned
C31_Graph ==
    /\ Returned
    /\ populates = 1
    /\ byCaller = {1, 2}
    /\ named = (NameLg :> 1) @@ (NameDb :> 2)
    /\ objects[1].Value = Ptr("ServiceC", 1, <<>>) /\ ~objects[1].Complete
    /\ objects[2].Value = Ptr("ServiceC", 2, <<>>) /\ ~objects[2].Complete

\* what Populate returned, the value of every field, and the values tracked
Outcome ==
    [ok |-> err = "",
     fields |-> heap,
     tracked |-> {objects[i].Value : i \in 1..Len(objects)}]

\* the outcome when pass 1 visits "lg" before "db": the ServiceB found in the
\* first ServiceC is registered and populated with a created ServiceA, and the
\* second ServiceC is given that ServiceB
C31_LgFirst ==
    LET c1 == Ptr("ServiceC", 1, <<>>)
        c2 == Ptr("ServiceC", 2, <<>>)
        b == Ptr("ServiceB", 3, <<>>)
        a == Ptr("ServiceA", FirstNew, <<>>)
    IN  [ok |-> TRUE,
         fields |-> SetField(SetField(Build(heap0, "ServiceA", FirstNew), c2, 1, b),
                             b, 1, a),
         tracked |-> {c1, c2, b, a}]

\* C31: for a fixed Graph the result of Populate (error or success, every
\* field value, the values tracked) does not depend on the order in which
\* pass 1 and pass 4 range over g.named: with the two ServiceC registered
\* under "lg" and "db", it is the result of visiting "lg" first.
C31_OrderIndependent == C31_Graph => Outcome = C31_LgFirst

\* Populate of that Graph returned the result of visiting "lg" first
C31_Witness == C31_Graph /\ Outcome = C31_LgFirst

\* the positions of g.unnamed whose Object is not private and can be
\* assigned to a field of type ft
Matches(ft) ==
    {k \in Positions : ~U(k).private /\ AssignableTo(U(k).reflectType, ft)}

\* the step in which populateUnnamedInterface returns the ambiguity error
AmbiguityStep ==
    /\ pc \in {"pass3", "pass4"} /\ stack # <<>>
    /\ pc' = "returned"
    /\ err' = "found two assignable values for field"

\* C32: when the search for a nil interface field fails with the ambiguity
\* error, the field holds the first match of g.unnamed, the edge to that
\* Object is recorded, and nothing else has changed: no later field of the
\* struct, no other struct, no collection of the Graph.
C32_AmbiguityAssigned ==
    [][AmbiguityStep =>
         LET o == Top.o
             i == Top.i
             a == objects[o].Value
             first == Min(Matches(Types[a.e][i].type))
         IN  /\ heap[a][i] = Zero
             /\ heap' = SetField(heap, a, i, U(first).Value)
             /\ objects' = [objects EXCEPT
                              ![o].Fields = (i :> unnamed[first]) @@ @]
             /\ \A j \in (i + 1)..NumField(a.e) :
                  heap'[a][j] = heap[a][j] /\ j \notin DOMAIN objects'[o].Fields
             /\ UNCHANGED <<unnamed, unnamedType, named, nextN>>]_vars

\* Populate returned the ambiguity error for First of the Dual: First holds
\* a value, its edge is recorded, and Second is nil
C32_Witness ==
    /\ Returned
    /\ err = "found two assignable values for field"
    /\ \E o \in 1..Len(objects) :
         /\ objects[o].Value = Ptr("Dual", 1, <<>>)
         /\ heap[objects[o].Value][1] # Zero
         /\ 1 \in DOMAIN objects[o].Fields
         /\ objects[objects[o].Fields[1]].Value = heap[objects[o].Value][1]
         /\ heap[objects[o].Value][2] = Zero

====
